---------------------------- MODULE Spec2Model ----------------------------
(***************************************************************************)
(* Availability and reservation engine of the Flavour Academy event        *)
(* manager: the booking handler, the event page, the organiser dashboard   *)
(* read, the waitlist join handler and the organiser's waitlist routes,    *)
(* over the SQLite tables events, tickets, bookings and waitlist.          *)
(*                                                                         *)
(* Granularity.  Every handler is a chain of database callbacks.  One      *)
(* action of the model is one link of the chain: the statement the handler *)
(* issued is executed by the database and its callback runs to the point   *)
(* where it issues the next statement or responds.  The synchronous part   *)
(* of a handler (parsing and the checks before the first statement) is one *)
(* action as well.  Requests run in slots; a specification that runs the   *)
(* requests one at a time starts a request only when every slot is idle.   *)
(*                                                                         *)
(* Text (names, emails) is a sequence of one-character strings.  A numeric *)
(* form field is <<>> when parseInt gives NaN and <<n>> when it gives n.   *)
(* Instants are integers: booking_date and requested_at are read from      *)
(* clock, and ISO-8601 strings of one width order as their instants do.    *)
(***************************************************************************)
EXTENDS Integers, Sequences, FiniteSets, TLC

\* ------------------------------------------------------------------ bounds
MaxEvents == 2          \* events in the events table
MaxRequests == 2        \* requests started in one behaviour
MaxClock == 1           \* the clock runs over 0..MaxClock
MaxSlots == 2           \* request handlers in flight at once
MaxEntries == 3         \* rows of the waitlist where three entries are needed

\* ------------------------------------------------------- program constants
MAX_TICKETS_PER_BOOKING == 10

Tiers == {"full", "concession"}
EventIds == 1..MaxEvents
Slots == 1..MaxSlots
Today == 0

\* --------------------------------------------------------------- helpers
Rows(table) == {table[i] : i \in DOMAIN table}

\* SUM(quantity) over rows
RECURSIVE sumQuantity(_)
sumQuantity(rows) ==
    IF rows = <<>> THEN 0 ELSE Head(rows).quantity + sumQuantity(Tail(rows))

\* str.replace(/[<>]/g, '')
sanitizeInput(str) ==
    IF str = <<>> THEN <<>> ELSE SelectSeq(str, LAMBDA c : c \notin {"<", ">"})

RECURSIVE trimStart(_)
trimStart(s) == IF s # <<>> /\ Head(s) = " " THEN trimStart(Tail(s)) ELSE s

RECURSIVE trimEnd(_)
trimEnd(s) ==
    IF s # <<>> /\ s[Len(s)] = " " THEN trimEnd(SubSeq(s, 1, Len(s) - 1)) ELSE s

trim(s) == trimEnd(trimStart(s))

\* /^[^\s@]+@[^\s@]+\.[^\s@]+$/, and true for the empty string.
isValidEmail(email) ==
    IF email = <<>> THEN TRUE
    ELSE /\ \A i \in 1..Len(email) : email[i] # " "
         /\ Cardinality({i \in 1..Len(email) : email[i] = "@"}) = 1
         /\ \E k \in 2..Len(email) :
               /\ email[k] = "@"
               /\ \E j \in (k + 2)..(Len(email) - 1) : email[j] = "."

\* parseInt(v) || d
parseIntOr(v, d) == IF v = <<>> \/ v[1] = 0 THEN d ELSE v[1]

\* !id || isNaN(id)
isBadId(id) == id = <<>>

\* new Date('YYYY-MM-DD'): midnight UTC of that day, in hours.
parseDate(day) == day * 24

\* new Date() with setHours(0,0,0,0): local midnight, in hours (UTC).
localMidnight(day, offset) == day * 24 - offset

\* ------------------------------------------------------------------ state
VARIABLES
    events,     \* table events: rows [event_id, status, event_date]
    tickets,    \* table tickets: rows [ticket_id, event_id, type, quantity, price]
    bookings,   \* table bookings
    waitlist,   \* table waitlist
    organisers, \* table organisers: rows [organiser_id, username, password]
    settings,   \* table settings: its one row [site_name, site_description]
    session,    \* per slot: req.session.authenticated of the browser it serves
    sqlite_sequence, \* per table: the largest id AUTOINCREMENT has given
    clock,      \* the instant new Date() returns
    tz,         \* the server's offset from UTC, in hours
    form,       \* per slot: req.params.id and req.body of the request that arrived
    pc,         \* per slot: the callback the handler waits for
    loc,        \* per slot: the handler's local constants and query results
    resp,       \* per slot: the response of the slot's last request
    view,       \* what res.render was given last
    nreq        \* requests started so far

vars ==
    <<events, tickets, bookings, waitlist, organisers, settings, session,
      sqlite_sequence, clock, tz, form, pc, loc, resp, view, nreq>>
\* The accounts, the site's settings row and the sessions of the browsers.
site == <<organisers, settings, session>>
db == <<events, tickets, bookings, waitlist>>

NoLocals ==
    [kind |-> "none", rid |-> 0, eventId |-> 0, name |-> <<>>, email |-> <<>>,
     fullQty |-> 0, concessionQty |-> 0, ticketType |-> "", quantity |-> 0,
     now |-> 0, tickets |-> <<>>, available |-> <<>>, from |-> <<>>, to |-> <<>>,
     ticketData |-> <<>>, isSoldOut |-> FALSE, chains |-> <<>>, waitlistId |-> 0,
     eventDate |-> 0, fullPrice |-> 0, fullQuantity |-> 0, concessionPrice |-> 0,
     concessionQuantity |-> 0, count |-> 0, siteName |-> <<>>,
     siteDescription |-> <<>>, username |-> "", password |-> "",
     recent |-> <<>>]

NoResponse == [kind |-> "none", reason |-> "", value |-> 0]

\* req.flash('error', ...) followed by res.redirect(...)
Error(reason, value) == [kind |-> "error", reason |-> reason, value |-> value]
\* req.flash('success', ...) followed by res.redirect(...)
Success(reason, value) == [kind |-> "success", reason |-> reason, value |-> value]

\* res.status(code).send(...)
Status(code) == [kind |-> "status", reason |-> "", value |-> code]
\* res.render(template, ...): what the template was given is in view
Rendered(template) == [kind |-> "render", reason |-> template, value |-> 0]
\* res.redirect(path) with no flash message
Redirect(path) == [kind |-> "redirect", reason |-> path, value |-> 0]
\* res.redirect(`${path}/${id}`)
RedirectTo(path, id) == [kind |-> "redirect", reason |-> path, value |-> id]
\* res.send(text)
Sent(text) == [kind |-> "send", reason |-> text, value |-> 0]

NoView == [kind |-> "none"]

NoForm ==
    [id |-> <<>>, attendee_name |-> <<>>, attendee_email |-> <<>>,
     full_quantity |-> <<>>, concession_quantity |-> <<>>]

\* A handler responds and ends: its locals are gone, the response stays until
\* the slot's next request.
Respond(r, answer) ==
    /\ pc' = [pc EXCEPT ![r] = "idle"]
    /\ loc' = [loc EXCEPT ![r] = NoLocals]
    /\ resp' = [resp EXCEPT ![r] = answer]

\* The handler goes on to wait for its next callback.
Await(r, callback, locals) ==
    /\ pc' = [pc EXCEPT ![r] = callback]
    /\ loc' = [loc EXCEPT ![r] = locals]
    /\ UNCHANGED resp

Idle(r) == pc[r] = "idle"

\* ------------------------------------------------------------ the database
EventRow(id, status, day, published_at) ==
    [event_id |-> id, status |-> status, event_date |-> day,
     published_at |-> published_at]

TicketRow(id, e, type, quantity, price) ==
    [ticket_id |-> id, event_id |-> e, type |-> type, quantity |-> quantity,
     price |-> price]

OrganiserRow(id, username, password) ==
    [organiser_id |-> id, username |-> username, password |-> password]

\* INTEGER PRIMARY KEY AUTOINCREMENT: one more than the largest id the table
\* ever held.
NextId(table) == sqlite_sequence[table] + 1

\* The table's sequence after an INSERT.
Allocated(table) == [sqlite_sequence EXCEPT ![table] = @ + 1]

\* Mutant: foreign keys are not enforced.
eventExistsUnenforced(e) == TRUE

\* FOREIGN KEY (event_id) REFERENCES events(event_id), with foreign_keys=ON
eventExists(e) == \E row \in Rows(events) : row.event_id = e

\* SELECT * FROM events WHERE event_id = ? AND status = 'published'
selectPublished(e) ==
    SelectSeq(events, LAMBDA row : row.event_id = e /\ row.status = "published")

\* SELECT * FROM tickets WHERE event_id = ?
selectTickets(e) == SelectSeq(tickets, LAMBDA row : row.event_id = e)

\* Mutant: the bookings of every event are summed.
selectBookedAnyEvent(e) ==
    LET types == {b.ticket_type : b \in Rows(bookings)}
    IN  [t \in types |-> sumQuantity(SelectSeq(bookings, LAMBDA b : b.ticket_type = t))]

\* Mutant: only the bookings of the current instant are summed.
selectBookedNow(e) ==
    LET mine == SelectSeq(bookings, LAMBDA b : b.event_id = e /\ b.booking_date >= clock)
        types == {b.ticket_type : b \in Rows(mine)}
    IN  [t \in types |-> sumQuantity(SelectSeq(mine, LAMBDA b : b.ticket_type = t))]

\* SELECT ticket_type, SUM(quantity) as booked FROM bookings
\*  WHERE event_id = ? GROUP BY ticket_type
selectBooked(e) ==
    LET mine == SelectSeq(bookings, LAMBDA b : b.event_id = e)
        types == {b.ticket_type : b \in Rows(mine)}
    IN  [t \in types |-> sumQuantity(SelectSeq(mine, LAMBDA b : b.ticket_type = t))]

\* Mutant: the booked sums are not subtracted.
RECURSIVE availableOfUnbooked(_, _, _)
availableOfUnbooked(rows, booked, acc) ==
    IF rows = <<>> THEN acc
    ELSE availableOfUnbooked(Tail(rows), booked,
             [k \in DOMAIN acc \cup {Head(rows).type} |->
                 IF k = Head(rows).type THEN Head(rows).quantity ELSE acc[k]])

\* tickets.forEach(t => { booked = bookings.find(...);
\*     available[t.type] = t.quantity - (booked ? booked.booked : 0) })
\* A later row of the same type overwrites an earlier one.
RECURSIVE availableOf(_, _, _)
availableOf(rows, booked, acc) ==
    IF rows = <<>> THEN acc
    ELSE LET t == Head(rows)
             n == t.quantity - (IF t.type \in DOMAIN booked THEN booked[t.type] ELSE 0)
         IN  availableOf(Tail(rows), booked,
                 [k \in DOMAIN acc \cup {t.type} |->
                     IF k = t.type THEN n ELSE acc[k]])

Empty == [k \in {} |-> 0]

\* Mutant: a tier without a row has no limit.
orUnlimited(available, type) ==
    IF type \in DOMAIN available THEN available[type] ELSE MAX_TICKETS_PER_BOOKING

\* available.full || 0
orZero(available, type) ==
    IF type \in DOMAIN available THEN available[type] ELSE 0

\* What the two queries of a remaining read can see.  A handler keeps it in
\* from (at its tickets query) and to (at its bookings query); the two are no
\* variables of the code: they tell whether a write came between two reads.
Stored == <<tickets, bookings>>

\* Mutant: the row is stamped with the instant of its INSERT.
BookingRowStamped(r, type, qty) ==
    [booking_id |-> NextId("bookings"), event_id |-> loc[r].eventId,
     attendee_name |-> loc[r].name, attendee_email |-> loc[r].email,
     ticket_type |-> type, quantity |-> qty, booking_date |-> clock,
     rid |-> loc[r].rid, seen |-> orZero(loc[r].available, type)]

\* The row an INSERT INTO bookings adds (dietary_notes left out).  Two fields
\* are no columns: rid, the number of the request that inserted the row, and
\* seen, the availability of the tier that request had computed.
BookingRow(r, type, qty) ==
    [booking_id |-> NextId("bookings"), event_id |-> loc[r].eventId,
     attendee_name |-> loc[r].name, attendee_email |-> loc[r].email,
     ticket_type |-> type, quantity |-> qty, booking_date |-> loc[r].now,
     rid |-> loc[r].rid, seen |-> orZero(loc[r].available, type)]

\* --------------------------------------------- POST /attendee/event/:id/book
\* if (!name || name.length < 2)
nameMissing(name) == name = <<>> \/ Len(name) < 2

\* if (email && !isValidEmail(email))
emailRejected(email) == email # <<>> /\ ~isValidEmail(email)

\* if (totalQty === 0)
noneSelected(totalQty) == totalQty = 0

\* Mutant: the check of the total is missing.
overMaximumUnchecked(totalQty) == FALSE

\* if (totalQty > MAX_TICKETS_PER_BOOKING)
overMaximum(totalQty) == totalQty > MAX_TICKETS_PER_BOOKING

\* if (eventDate < today)
hasPassed(event) == parseDate(event.event_date) < localMidnight(Today, tz)

\* Mutant: the comparison lets one ticket too many through.
notEnoughOffByOne(qty, available, type) == qty > orZero(available, type) + 1

\* if (fullQty > (available.full || 0))
notEnough(qty, available, type) == qty > orZero(available, type)

\* router.use: the settings middleware runs before every attendee route, so a
\* request is in flight, with its body parsed, before its handler starts.
BookArrive(r, f) ==
    /\ Idle(r)
    /\ nreq < MaxRequests
    /\ nreq' = nreq + 1
    /\ form' = [form EXCEPT ![r] = f]
    /\ pc' = [pc EXCEPT ![r] = "b_start"]
    /\ loc' = [loc EXCEPT ![r] = [NoLocals EXCEPT !.kind = "book", !.rid = nreq + 1]]
    /\ resp' = [resp EXCEPT ![r] = NoResponse]
    /\ UNCHANGED <<db, clock, tz, site, sqlite_sequence, view>>

\* The locals the handler computes from the request.
bookLocals(r) ==
    [loc[r] EXCEPT
        !.eventId = form[r].id[1],
        !.name = trim(sanitizeInput(form[r].attendee_name)),
        !.email = trim(sanitizeInput(form[r].attendee_email)),
        !.fullQty = parseIntOr(form[r].full_quantity, 0),
        !.concessionQty = parseIntOr(form[r].concession_quantity, 0),
        !.now = clock]

\* The synchronous part: parsing and the checks before the first query.
BookStart(r) ==
    /\ pc[r] = "b_start"
    /\ form' = [form EXCEPT ![r] = NoForm]
    /\ UNCHANGED <<db, clock, tz, site, sqlite_sequence, view, nreq>>
    /\ IF isBadId(form[r].id) THEN Respond(r, Error("invalid_event", 0))
       ELSE LET l == bookLocals(r)
                totalQty == l.fullQty + l.concessionQty
            IN  IF nameMissing(l.name) THEN Respond(r, Error("name", 0))
                ELSE IF emailRejected(l.email) THEN Respond(r, Error("email", 0))
                ELSE IF noneSelected(totalQty)
                     THEN Respond(r, Error("none_selected", 0))
                ELSE IF overMaximum(totalQty)
                     THEN Respond(r, Error("maximum", MAX_TICKETS_PER_BOOKING))
                ELSE Await(r, "b_event", l)

\* Callback of the events query.
BookEvent(r, err) ==
    /\ pc[r] = "b_event"
    /\ UNCHANGED <<db, clock, tz, site, sqlite_sequence, form, view, nreq>>
    /\ LET found == selectPublished(loc[r].eventId)
       IN  IF err \/ found = <<>> THEN Respond(r, Error("not_found", 0))
           ELSE IF hasPassed(found[1]) THEN Respond(r, Error("passed", 0))
           ELSE Await(r, "b_tickets", loc[r])

\* Callback of the tickets query.
BookTickets(r, err) ==
    /\ pc[r] = "b_tickets"
    /\ UNCHANGED <<db, clock, tz, site, sqlite_sequence, form, view, nreq>>
    /\ IF err THEN Respond(r, Error("availability", 0))
       ELSE Await(r, "b_bookings",
                  [loc[r] EXCEPT !.tickets = selectTickets(loc[r].eventId),
                                 !.from = Stored])

\* insertBooking('concession', concessionQty, ...): the INSERT is issued, or
\* callback(null) runs at once and the handler reports success.
insertConcession(r, l) ==
    IF l.concessionQty > 0
    THEN Await(r, "b_insert_concession", l)
    ELSE Respond(r, Success("booked", 0))

\* insertBooking('full', fullQty, ...): the INSERT is issued, or callback(null)
\* runs at once and goes on to the concession tier.
insertFull(r, l) ==
    IF l.fullQty > 0
    THEN Await(r, "b_insert_full", l)
    ELSE insertConcession(r, l)

\* Callback of the bookings query: the availability check.
BookBookings(r, err) ==
    /\ pc[r] = "b_bookings"
    /\ UNCHANGED <<db, clock, tz, site, sqlite_sequence, form, view, nreq>>
    /\ IF err THEN Respond(r, Error("availability", 0))
       ELSE LET available == availableOf(loc[r].tickets,
                                 selectBooked(loc[r].eventId), Empty)
            IN  IF notEnough(loc[r].fullQty, available, "full")
                THEN Respond(r, Error("full", orZero(available, "full")))
                ELSE IF notEnough(loc[r].concessionQty, available, "concession")
                THEN Respond(r, Error("concession", orZero(available, "concession")))
                ELSE insertFull(r, [loc[r] EXCEPT !.available = available,
                                                  !.to = Stored])

\* The full INSERT runs and its callback (err4) follows; the INSERT fails when
\* the event is gone (FOREIGN KEY).
BookInsertFull(r, err) ==
    /\ pc[r] = "b_insert_full"
    /\ UNCHANGED <<events, tickets, waitlist, clock, tz, site, form, view, nreq>>
    /\ IF err \/ ~eventExists(loc[r].eventId)
       THEN /\ UNCHANGED <<bookings, sqlite_sequence>>
            /\ Respond(r, Error("failed", 0))
       ELSE /\ sqlite_sequence' = Allocated("bookings")
            /\ bookings' = Append(bookings, BookingRow(r, "full", loc[r].fullQty))
            /\ insertConcession(r, loc[r])

\* Mutant: when the concession INSERT fails, the rows of the request are
\* deleted again.
BookInsertConcessionRollback(r, err) ==
    /\ pc[r] = "b_insert_concession"
    /\ UNCHANGED <<events, tickets, waitlist, clock, tz, site, form, view, nreq>>
    /\ IF err
       THEN /\ bookings' = SelectSeq(bookings, LAMBDA b : b.rid # loc[r].rid)
            /\ UNCHANGED sqlite_sequence
            /\ Respond(r, Error("failed", 0))
       ELSE /\ sqlite_sequence' = Allocated("bookings")
            /\ bookings' = Append(bookings,
                               BookingRow(r, "concession", loc[r].concessionQty))
            /\ Respond(r, Success("booked", 0))

\* The concession INSERT runs and its callback (err5) follows; the INSERT
\* fails when the event is gone (FOREIGN KEY).
BookInsertConcession(r, err) ==
    /\ pc[r] = "b_insert_concession"
    /\ UNCHANGED <<events, tickets, waitlist, clock, tz, site, form, view, nreq>>
    /\ IF err \/ ~eventExists(loc[r].eventId)
       THEN /\ UNCHANGED <<bookings, sqlite_sequence>>
            /\ Respond(r, Error("failed", 0))
       ELSE /\ sqlite_sequence' = Allocated("bookings")
            /\ bookings' = Append(bookings,
                               BookingRow(r, "concession", loc[r].concessionQty))
            /\ Respond(r, Success("booked", 0))

\* ------------------------------------------------- GET /attendee/event/:id
\* Mutant: the remaining is not clamped.
clampZeroNot(n) == n

\* Math.max(0, n)
clampZero(n) == IF n > 0 THEN n ELSE 0

\* ticket.quantity - (booked ? booked.booked : 0)
remainingOf(ticket, booked) ==
    ticket.quantity - (IF ticket.type \in DOMAIN booked THEN booked[ticket.type] ELSE 0)

\* tickets.map(ticket => ({ ...ticket, remaining: Math.max(0, remaining) }))
ticketDataOf(rows, booked) ==
    [i \in 1..Len(rows) |->
        [ticket_id |-> rows[i].ticket_id, event_id |-> rows[i].event_id,
         type |-> rows[i].type, quantity |-> rows[i].quantity,
         price |-> rows[i].price,
         remaining |-> clampZero(remainingOf(rows[i], booked))]]

\* totalRemaining += Math.max(0, remaining), over the ticket rows
RECURSIVE totalRemainingOf(_, _)
totalRemainingOf(rows, booked) ==
    IF rows = <<>> THEN 0
    ELSE clampZero(remainingOf(Head(rows), booked))
            + totalRemainingOf(Tail(rows), booked)

\* SELECT COUNT(*) as count FROM waitlist WHERE event_id = ? AND status = 'waiting'
countWaiting(e) ==
    Len(SelectSeq(waitlist, LAMBDA w : w.event_id = e /\ w.status = "waiting"))

\* The settings middleware runs first; then the handler starts.
PageArrive(r, id) ==
    /\ Idle(r)
    /\ form' = [form EXCEPT ![r] = [NoForm EXCEPT !.id = id]]
    /\ pc' = [pc EXCEPT ![r] = "p_start"]
    /\ loc' = [loc EXCEPT ![r] = [NoLocals EXCEPT !.kind = "page"]]
    /\ resp' = [resp EXCEPT ![r] = NoResponse]
    /\ UNCHANGED <<db, clock, tz, site, sqlite_sequence, view, nreq>>

PageStart(r) ==
    /\ pc[r] = "p_start"
    /\ form' = [form EXCEPT ![r] = NoForm]
    /\ UNCHANGED <<db, clock, tz, site, sqlite_sequence, view, nreq>>
    /\ IF isBadId(form[r].id) THEN Respond(r, Status(400))
       ELSE Await(r, "p_event", [loc[r] EXCEPT !.eventId = form[r].id[1]])

\* Callback of the events query.
PageEvent(r, err) ==
    /\ pc[r] = "p_event"
    /\ UNCHANGED <<db, clock, tz, site, sqlite_sequence, form, view, nreq>>
    /\ IF err THEN Respond(r, Status(500))
       ELSE IF selectPublished(loc[r].eventId) = <<>> THEN Respond(r, Status(404))
       ELSE Await(r, "p_tickets", loc[r])

\* Callback of the tickets query.
PageTickets(r, err) ==
    /\ pc[r] = "p_tickets"
    /\ UNCHANGED <<db, clock, tz, site, sqlite_sequence, form, view, nreq>>
    /\ IF err THEN Respond(r, Status(500))
       ELSE Await(r, "p_bookings",
                  [loc[r] EXCEPT !.tickets = selectTickets(loc[r].eventId),
                                 !.from = Stored])

\* Callback of the bookings query: ticketData, totalRemaining, isSoldOut.
PageBookings(r, err) ==
    /\ pc[r] = "p_bookings"
    /\ UNCHANGED <<db, clock, tz, site, sqlite_sequence, form, view, nreq>>
    /\ IF err THEN Respond(r, Status(500))
       ELSE LET booked == selectBooked(loc[r].eventId)
                totalRemaining == totalRemainingOf(loc[r].tickets, booked)
            IN  Await(r, "p_waitlist",
                      [loc[r] EXCEPT
                          !.ticketData = ticketDataOf(loc[r].tickets, booked),
                          !.isSoldOut = (totalRemaining = 0),
                          !.to = Stored])

\* Callback of the waitlist count: the page is rendered.
PageWaitlist(r, err) ==
    /\ pc[r] = "p_waitlist"
    /\ UNCHANGED <<db, clock, tz, site, sqlite_sequence, form, nreq>>
    /\ view' = [kind |-> "attendee_event", eventId |-> loc[r].eventId,
                tickets |-> loc[r].ticketData, isSoldOut |-> loc[r].isSoldOut,
                waitlistCount |-> IF err THEN 0 ELSE countWaiting(loc[r].eventId),
                from |-> loc[r].from, to |-> loc[r].to]
    /\ Respond(r, Rendered("attendee_event"))

\* ------------------------------------------------------------ GET /organiser
\* SELECT * FROM events WHERE status = ?  (the ORDER BY is left out: nothing
\* the handler computes depends on the order of the list)
selectByStatus(status) == SelectSeq(events, LAMBDA row : row.status = status)

\* SELECT type, quantity FROM tickets WHERE event_id = ?
selectTypeQuantity(e) ==
    LET rows == selectTickets(e)
    IN  [i \in 1..Len(rows) |-> [type |-> rows[i].type, quantity |-> rows[i].quantity]]

\* tickets.forEach(ticket => { remaining[ticket.type] = ticket.quantity - ... })
remainingTickets(rows, booked) == availableOf(rows, booked, Empty)

\* calculateRemainingTickets: one promise per event, waiting for its tickets
\* query, then for its bookings query, then resolved.
Chain(e) ==
    [event_id |-> e, at |-> "tickets", tickets |-> <<>>, computed |-> FALSE,
     remainingTickets |-> Empty, from |-> <<>>, to |-> <<>>]

\* await Promise.all(...): once every promise is resolved the page is rendered
\* with the events as the promises left them.
awaitAll(r, chains) ==
    IF \A i \in DOMAIN chains : chains[i].at = "resolved"
    THEN /\ view' = [kind |-> "organiser_home", events |-> chains]
         /\ Respond(r, Rendered("organiser_home"))
    ELSE /\ UNCHANGED view
         /\ Await(r, "d_remaining", [loc[r] EXCEPT !.chains = chains])

\* router.use: without an authenticated session the request is redirected to
\* the login page; with one the handler starts.
DashArrive(r, authenticated) ==
    /\ Idle(r)
    /\ UNCHANGED <<db, clock, tz, site, sqlite_sequence, form, view, nreq>>
    /\ IF authenticated
       THEN /\ pc' = [pc EXCEPT ![r] = "d_settings"]
            /\ loc' = [loc EXCEPT ![r] = [NoLocals EXCEPT !.kind = "dashboard"]]
            /\ resp' = [resp EXCEPT ![r] = NoResponse]
       ELSE Respond(r, Redirect("/login"))

\* Callback of the settings query.
DashSettings(r, err) ==
    /\ pc[r] = "d_settings"
    /\ UNCHANGED <<db, clock, tz, site, sqlite_sequence, form, view, nreq>>
    /\ IF err THEN Respond(r, Status(500)) ELSE Await(r, "d_published", loc[r])

\* Callback of the query for the published events.
DashPublished(r, err) ==
    /\ pc[r] = "d_published"
    /\ UNCHANGED <<db, clock, tz, site, sqlite_sequence, form, view, nreq>>
    /\ IF err THEN Respond(r, Status(500))
       ELSE LET publishedEvents == selectByStatus("published")
            IN  Await(r, "d_draft",
                      [loc[r] EXCEPT !.chains =
                          [i \in 1..Len(publishedEvents) |->
                              Chain(publishedEvents[i].event_id)]])

\* Callback of the query for the draft events: calculateRemainingTickets is
\* called with [...publishedEvents, ...draftEvents].
DashDraft(r, err) ==
    /\ pc[r] = "d_draft"
    /\ UNCHANGED <<db, clock, tz, site, sqlite_sequence, form, nreq>>
    /\ IF err THEN UNCHANGED view /\ Respond(r, Status(500))
       ELSE LET draftEvents == selectByStatus("draft")
            IN  awaitAll(r, loc[r].chains \o
                            [i \in 1..Len(draftEvents) |->
                                Chain(draftEvents[i].event_id)])

\* Callback of the tickets query of the i-th event.
DashTickets(r, i, err) ==
    /\ pc[r] = "d_remaining"
    /\ i \in DOMAIN loc[r].chains
    /\ loc[r].chains[i].at = "tickets"
    /\ UNCHANGED <<db, clock, tz, site, sqlite_sequence, form, nreq>>
    /\ LET c == loc[r].chains[i]
       IN  awaitAll(r, [loc[r].chains EXCEPT ![i] =
              IF err THEN [c EXCEPT !.at = "resolved"]
              ELSE [c EXCEPT !.at = "bookings",
                             !.tickets = selectTypeQuantity(c.event_id),
                             !.from = Stored]])

\* Callback of the bookings query of the i-th event.
DashBookings(r, i, err) ==
    /\ pc[r] = "d_remaining"
    /\ i \in DOMAIN loc[r].chains
    /\ loc[r].chains[i].at = "bookings"
    /\ UNCHANGED <<db, clock, tz, site, sqlite_sequence, form, nreq>>
    /\ LET c == loc[r].chains[i]
       IN  awaitAll(r, [loc[r].chains EXCEPT ![i] =
              IF err THEN [c EXCEPT !.at = "resolved"]
              ELSE [c EXCEPT !.at = "resolved", !.computed = TRUE,
                             !.remainingTickets =
                                 remainingTickets(c.tickets, selectBooked(c.event_id)),
                             !.to = Stored]])

\* -------------------------------------------- GET /attendee/confirmation/:id
\* The UTC day of an instant: the clock stays within the day Today, on a
\* server that runs on UTC.
utcDayOf(instant) == Today

\* SELECT ticket_type, quantity, booking_date FROM bookings
\*  WHERE event_id = ? AND attendee_name = ?
\*    AND booking_date >= datetime('now', '-5 minutes')
\* booking_date holds an ISO string, 'YYYY-MM-DDTHH:MM:SS.sssZ', and datetime()
\* gives 'YYYY-MM-DD HH:MM:SS'; the two are compared as text, so the days
\* decide and on the same day 'T' sorts after ' '.  since is the day of the
\* instant five minutes ago.
selectRecent(e, name, since) ==
    SelectSeq(bookings, LAMBDA b :
        /\ b.event_id = e /\ b.attendee_name = name
        /\ utcDayOf(b.booking_date) >= since)

\* ORDER BY booking_date DESC: rows of one booking_date come in any order.
orderedRecent(rows) ==
    {[i \in DOMAIN rows |-> rows[p[i]]] :
        p \in {q \in [DOMAIN rows -> DOMAIN rows] :
                 /\ \A i, j \in DOMAIN rows : i # j => q[i] # q[j]
                 /\ \A i, j \in DOMAIN rows : i < j =>
                       rows[q[i]].booking_date >= rows[q[j]].booking_date}}

\* tickets.forEach(t => priceMap[t.type] = t.price), then
\* priceMap[type] || 0: the price of the last row of the type, 0 without one.
priceOr(ticketRows, type) ==
    LET mine == SelectSeq(ticketRows, LAMBDA t : t.type = type)
    IN  IF mine = <<>> THEN 0 ELSE mine[Len(mine)].price

RECURSIVE sumPrice(_, _)
sumPrice(rows, ticketRows) ==
    IF rows = <<>> THEN 0
    ELSE Head(rows).quantity * priceOr(ticketRows, Head(rows).ticket_type)
            + sumPrice(Tail(rows), ticketRows)

\* The settings middleware, then the synchronous part of the handler:
\* if (!eventId || !attendeeName).
ConfirmArrive(r, id, name) ==
    /\ Idle(r)
    /\ UNCHANGED <<db, clock, tz, site, sqlite_sequence, form, view, nreq>>
    /\ IF id = <<>> \/ name = <<>> THEN Respond(r, Error("invalid_confirmation", 0))
       ELSE /\ pc' = [pc EXCEPT ![r] = "c_event"]
            /\ loc' = [loc EXCEPT ![r] =
                          [NoLocals EXCEPT !.kind = "confirm", !.eventId = id[1],
                                           !.name = name]]
            /\ resp' = [resp EXCEPT ![r] = NoResponse]

\* Callback of SELECT * FROM events WHERE event_id = ?
ConfirmEvent(r, err) ==
    /\ pc[r] = "c_event"
    /\ UNCHANGED <<db, clock, tz, site, sqlite_sequence, form, view, nreq>>
    /\ IF err \/ \A row \in Rows(events) : row.event_id # loc[r].eventId
       THEN Respond(r, Error("not_found", 0))
       ELSE Await(r, "c_bookings", loc[r])

\* Callback of the bookings query.
ConfirmBookings(r, err) ==
    /\ pc[r] = "c_bookings"
    /\ UNCHANGED <<db, clock, tz, site, sqlite_sequence, form, view, nreq>>
    /\ IF err THEN Respond(r, Error("no_recent", 0))
       ELSE \E since \in {Today - 1, Today} :
               \E rows \in orderedRecent(selectRecent(loc[r].eventId, loc[r].name, since)) :
                  IF rows = <<>> THEN Respond(r, Error("no_recent", 0))
                  ELSE Await(r, "c_tickets", [loc[r] EXCEPT !.recent = rows])

\* Callback of SELECT type, price FROM tickets WHERE event_id = ?: the totals
\* are summed and the confirmation is rendered.
ConfirmTickets(r, err) ==
    /\ pc[r] = "c_tickets"
    /\ UNCHANGED <<db, clock, tz, site, sqlite_sequence, form, nreq>>
    /\ IF err THEN UNCHANGED view /\ Respond(r, Error("prices", 0))
       ELSE /\ view' = [kind |-> "booking_confirmation",
                        eventId |-> loc[r].eventId,
                        attendeeName |-> loc[r].name,
                        bookings |-> [i \in DOMAIN loc[r].recent |->
                                        [ticket_type |-> loc[r].recent[i].ticket_type,
                                         quantity |-> loc[r].recent[i].quantity,
                                         booking_date |-> loc[r].recent[i].booking_date]],
                        totalQuantity |-> sumQuantity(loc[r].recent),
                        totalPrice |-> sumPrice(loc[r].recent,
                                                selectTickets(loc[r].eventId))]
            /\ Respond(r, Rendered("booking_confirmation"))

\* ------------------------------------------ POST /attendee/event/:id/waitlist
\* The row an INSERT INTO waitlist adds; notified_at is NULL (<<>>).
WaitlistRow(r) ==
    [waitlist_id |-> NextId("waitlist"), event_id |-> loc[r].eventId,
     attendee_name |-> loc[r].name, attendee_email |-> loc[r].email,
     ticket_type |-> loc[r].ticketType, quantity |-> loc[r].quantity,
     requested_at |-> loc[r].now, status |-> "waiting", notified_at |-> <<>>]

\* if (!email || !isValidEmail(email))
emailMissing(email) == email = <<>> \/ ~isValidEmail(email)

\* if (quantity < 1 || quantity > MAX_TICKETS_PER_BOOKING)
quantityOutOfRange(quantity) == quantity < 1 \/ quantity > MAX_TICKETS_PER_BOOKING

\* Mutant: an entry of any status counts as existing.
selectExistingAnyStatus(e, email) ==
    SelectSeq(waitlist, LAMBDA w : w.event_id = e /\ w.attendee_email = email)

\* SELECT * FROM waitlist
\*  WHERE event_id = ? AND attendee_email = ? AND status = 'waiting'
selectExisting(e, email) ==
    SelectSeq(waitlist, LAMBDA w :
        w.event_id = e /\ w.attendee_email = email /\ w.status = "waiting")

\* Mutant: the rows of this very instant are not counted.
countPositionBefore(e, now) ==
    Len(SelectSeq(waitlist, LAMBDA w :
        w.event_id = e /\ w.status = "waiting" /\ w.requested_at < now))

\* SELECT COUNT(*) as position FROM waitlist
\*  WHERE event_id = ? AND status = 'waiting' AND requested_at <= ?
countPosition(e, now) ==
    Len(SelectSeq(waitlist, LAMBDA w :
        w.event_id = e /\ w.status = "waiting" /\ w.requested_at <= now))

\* The settings middleware runs first; then the handler starts.  Requests
\* arrive while the rows of the table and the requests in flight number fewer
\* than max.
JoinArriveWithin(r, f, max) ==
    /\ Idle(r)
    /\ Len(waitlist) + Cardinality({q \in Slots : loc[q].kind = "join"}) < max
    /\ form' = [form EXCEPT ![r] = f]
    /\ pc' = [pc EXCEPT ![r] = "w_start"]
    /\ loc' = [loc EXCEPT ![r] = [NoLocals EXCEPT !.kind = "join"]]
    /\ resp' = [resp EXCEPT ![r] = NoResponse]
    /\ UNCHANGED <<db, clock, tz, site, sqlite_sequence, view, nreq>>

JoinArrive(r, f) == JoinArriveWithin(r, f, MaxRequests)

\* The locals the handler computes from the request.
joinLocals(r) ==
    [loc[r] EXCEPT
        !.eventId = form[r].id[1],
        !.name = trim(sanitizeInput(form[r].attendee_name)),
        !.email = trim(sanitizeInput(form[r].attendee_email)),
        !.ticketType = IF form[r].ticket_type = <<>> THEN "full"
                       ELSE form[r].ticket_type[1],
        !.quantity = parseIntOr(form[r].quantity, 1),
        !.now = clock]

\* The synchronous part: parsing and the checks before the first query.
JoinStart(r) ==
    /\ pc[r] = "w_start"
    /\ form' = [form EXCEPT ![r] = NoForm]
    /\ UNCHANGED <<db, clock, tz, site, sqlite_sequence, view, nreq>>
    /\ IF isBadId(form[r].id) THEN Respond(r, Error("invalid_event", 0))
       ELSE LET l == joinLocals(r)
            IN  IF nameMissing(l.name) THEN Respond(r, Error("name", 0))
                ELSE IF emailMissing(l.email) THEN Respond(r, Error("email", 0))
                ELSE IF quantityOutOfRange(l.quantity)
                     THEN Respond(r, Error("quantity", MAX_TICKETS_PER_BOOKING))
                ELSE Await(r, "w_event", l)

\* Callback of the events query.
JoinEvent(r, err) ==
    /\ pc[r] = "w_event"
    /\ UNCHANGED <<db, clock, tz, site, sqlite_sequence, form, view, nreq>>
    /\ IF err \/ selectPublished(loc[r].eventId) = <<>>
       THEN Respond(r, Error("not_found", 0))
       ELSE Await(r, "w_existing", loc[r])

\* Callback of the query for an existing entry.
JoinExisting(r, err) ==
    /\ pc[r] = "w_existing"
    /\ UNCHANGED <<db, clock, tz, site, sqlite_sequence, form, view, nreq>>
    /\ IF err THEN Respond(r, Error("database", 0))
       ELSE IF selectExisting(loc[r].eventId, loc[r].email) # <<>>
       THEN Respond(r, Error("already", 0))
       ELSE Await(r, "w_insert", loc[r])

\* The INSERT runs and its callback (err3) follows; the INSERT fails when the
\* event is gone (FOREIGN KEY).
JoinInsert(r, err) ==
    /\ pc[r] = "w_insert"
    /\ UNCHANGED <<events, tickets, bookings, clock, tz, site, form, view, nreq>>
    /\ IF err \/ ~eventExists(loc[r].eventId)
       THEN /\ UNCHANGED <<waitlist, sqlite_sequence>>
            /\ Respond(r, Error("failed", 0))
       ELSE /\ sqlite_sequence' = Allocated("waitlist")
            /\ waitlist' = Append(waitlist, WaitlistRow(r))
            /\ Await(r, "w_position", loc[r])

\* Mutant: when the count fails the handler sends nothing.
JoinPositionHanging(r, err) ==
    /\ pc[r] = "w_position"
    /\ UNCHANGED <<db, clock, tz, site, sqlite_sequence, form, view, nreq>>
    /\ IF err THEN Await(r, "w_hung", loc[r])
       ELSE Respond(r, Success("waitlist", countPosition(loc[r].eventId, loc[r].now)))

\* Callback of the position count; without a result the position is '?' (-1).
JoinPosition(r, err) ==
    /\ pc[r] = "w_position"
    /\ UNCHANGED <<db, clock, tz, site, sqlite_sequence, form, view, nreq>>
    /\ Respond(r, Success("waitlist",
                          IF err THEN -1 ELSE countPosition(loc[r].eventId, loc[r].now)))

\* ---------------------------------------------------- GET /organiser/waitlist
\* waitlist w JOIN events e ON w.event_id = e.event_id WHERE w.status = 'waiting'
joinedWaiting ==
    LET waiting == SelectSeq(waitlist, LAMBDA w :
                      w.status = "waiting" /\ \E e \in Rows(events) : e.event_id = w.event_id)
    IN  [i \in 1..Len(waiting) |->
            [waitlist_id |-> waiting[i].waitlist_id,
             attendee_name |-> waiting[i].attendee_name,
             attendee_email |-> waiting[i].attendee_email,
             ticket_type |-> waiting[i].ticket_type,
             quantity |-> waiting[i].quantity,
             requested_at |-> waiting[i].requested_at,
             status |-> waiting[i].status,
             event_id |-> waiting[i].event_id,
             event_date |-> (CHOOSE e \in Rows(events) :
                                e.event_id = waiting[i].event_id).event_date,
             position |-> 0]]

\* Mutant: the rows come as the table holds them.
orderedUnsorted(rows) == {rows}

\* ORDER BY e.event_date ASC, w.requested_at ASC: every arrangement of the rows
\* in which no row comes before one of a lower key; rows of one key come in any
\* order.
ordered(rows) ==
    {[i \in DOMAIN rows |-> rows[p[i]]] :
        p \in {q \in [DOMAIN rows -> DOMAIN rows] :
                 /\ \A i, j \in DOMAIN rows : i # j => q[i] # q[j]
                 /\ \A i, j \in DOMAIN rows : i < j =>
                       \/ rows[q[i]].event_date < rows[q[j]].event_date
                       \/ /\ rows[q[i]].event_date = rows[q[j]].event_date
                          /\ rows[q[i]].requested_at <= rows[q[j]].requested_at}}

\* The integers of S in ascending order: the order in which Object.values
\* visits keys that are integers.
RECURSIVE ascending(_)
ascending(S) ==
    IF S = {} THEN <<>>
    ELSE LET least == CHOOSE x \in S : \A y \in S : x <= y
         IN  <<least>> \o ascending(S \ {least})

\* Mutant: positions count from 0.
groupedByEventFromZero(entries) ==
    LET ids == ascending({entries[i].event_id : i \in DOMAIN entries})
    IN  [k \in DOMAIN ids |->
            LET mine == SelectSeq(entries, LAMBDA w : w.event_id = ids[k])
            IN  [event_id |-> ids[k], event_date |-> mine[1].event_date,
                 entries |-> [i \in DOMAIN mine |-> [mine[i] EXCEPT !.position = i - 1]]]]

\* groupedByEvent[entry.event_id].entries.push(entry), then
\* entry.position = index + 1, then Object.values(groupedByEvent)
groupedByEvent(entries) ==
    LET ids == ascending({entries[i].event_id : i \in DOMAIN entries})
    IN  [k \in DOMAIN ids |->
            LET mine == SelectSeq(entries, LAMBDA w : w.event_id = ids[k])
            IN  [event_id |-> ids[k], event_date |-> mine[1].event_date,
                 entries |-> [i \in DOMAIN mine |-> [mine[i] EXCEPT !.position = i]]]]

\* The handler: router.use lets an authenticated session through; the callback
\* of the query groups the entries and renders them.
ListArrive(r, authenticated) ==
    /\ Idle(r)
    /\ UNCHANGED <<db, clock, tz, site, sqlite_sequence, form, view, nreq>>
    /\ IF authenticated
       THEN /\ pc' = [pc EXCEPT ![r] = "l_entries"]
            /\ loc' = [loc EXCEPT ![r] = [NoLocals EXCEPT !.kind = "list"]]
            /\ resp' = [resp EXCEPT ![r] = NoResponse]
       ELSE Respond(r, Redirect("/login"))

ListEntries(r, err) ==
    /\ pc[r] = "l_entries"
    /\ UNCHANGED <<db, clock, tz, site, sqlite_sequence, form, nreq>>
    /\ IF err THEN UNCHANGED view /\ Respond(r, Status(500))
       ELSE \E entries \in ordered(joinedWaiting) :
               /\ view' = [kind |-> "view_waitlist",
                           waitlistByEvent |-> groupedByEvent(entries),
                           totalEntries |-> Len(entries)]
               /\ Respond(r, Rendered("view_waitlist"))

\* -------------------------- POST /organiser/waitlist/remove/:id and notify/:id
\* UPDATE waitlist SET status = 'removed' WHERE waitlist_id = ?
updateRemoved(id) ==
    [i \in DOMAIN waitlist |->
        IF waitlist[i].waitlist_id = id
        THEN [waitlist[i] EXCEPT !.status = "removed"] ELSE waitlist[i]]

\* Mutant: the UPDATE sets the status alone.
updateNotifiedUnstamped(id, now) ==
    [i \in DOMAIN waitlist |->
        IF waitlist[i].waitlist_id = id
        THEN [waitlist[i] EXCEPT !.status = "notified"] ELSE waitlist[i]]

\* Mutant: the UPDATE has no WHERE clause.
updateNotifiedAll(id, now) ==
    [i \in DOMAIN waitlist |->
        [waitlist[i] EXCEPT !.status = "notified", !.notified_at = <<now>>]]

\* UPDATE waitlist SET status = 'notified', notified_at = ? WHERE waitlist_id = ?
updateNotified(id, now) ==
    [i \in DOMAIN waitlist |->
        IF waitlist[i].waitlist_id = id
        THEN [waitlist[i] EXCEPT !.status = "notified", !.notified_at = <<now>>]
        ELSE waitlist[i]]

\* router.use, then the synchronous part of either handler; notify takes
\* now = new Date().toISOString(), remove takes no time.
UpdateArrive(r, kind, authenticated, id, now) ==
    /\ Idle(r)
    /\ UNCHANGED <<db, clock, tz, site, sqlite_sequence, form, view, nreq>>
    /\ IF ~authenticated THEN Respond(r, Redirect("/login"))
       ELSE IF isBadId(id) THEN Respond(r, Status(400))
       ELSE /\ pc' = [pc EXCEPT ![r] = kind]
            /\ loc' = [loc EXCEPT ![r] =
                          [NoLocals EXCEPT !.kind = kind, !.waitlistId = id[1],
                                           !.now = now]]
            /\ resp' = [resp EXCEPT ![r] = NoResponse]

RemoveArrive(r, authenticated, id) == UpdateArrive(r, "remove", authenticated, id, 0)

\* The UPDATE runs and its callback follows.
RemoveUpdate(r, err) ==
    /\ pc[r] = "remove"
    /\ UNCHANGED <<events, tickets, bookings, clock, tz, site, sqlite_sequence, form, view, nreq>>
    /\ IF err
       THEN /\ UNCHANGED waitlist
            /\ Respond(r, Status(500))
       ELSE /\ waitlist' = updateRemoved(loc[r].waitlistId)
            /\ Respond(r, Redirect("/organiser/waitlist"))

NotifyArrive(r, authenticated, id) ==
    UpdateArrive(r, "notify", authenticated, id, clock)

\* Mutant: marking an entry notified also books a ticket for its event.
NotifyUpdatePromoting(r, err) ==
    /\ pc[r] = "notify"
    /\ UNCHANGED <<events, tickets, clock, tz, site, form, view, nreq>>
    /\ waitlist' = updateNotified(loc[r].waitlistId, loc[r].now)
    /\ bookings' = Append(bookings, BookingRow(r, "full", 1))
    /\ sqlite_sequence' = Allocated("bookings")
    /\ Respond(r, Redirect("/organiser/waitlist"))

\* The UPDATE runs and its callback follows.
NotifyUpdate(r, err) ==
    /\ pc[r] = "notify"
    /\ UNCHANGED <<events, tickets, bookings, clock, tz, site, sqlite_sequence, form, view, nreq>>
    /\ IF err
       THEN /\ UNCHANGED waitlist
            /\ Respond(r, Status(500))
       ELSE /\ waitlist' = updateNotified(loc[r].waitlistId, loc[r].now)
            /\ Respond(r, Redirect("/organiser/waitlist"))

\* ------------------------------------------------ POST /organiser/edit/:id
\* new Date(dateString) >= today, today at local midnight
isValidFutureDate(day) == parseDate(day) >= localMidnight(Today, tz)

\* if (fullPrice < 0 || concessionPrice < 0 || fullQuantity < 0 ||
\*     concessionQuantity < 0)
anyNegative(fullPrice, concessionPrice, fullQuantity, concessionQuantity) ==
    fullPrice < 0 \/ concessionPrice < 0 \/ fullQuantity < 0 \/ concessionQuantity < 0

\* The locals of the edit handler: parseFloat(...) || 0 and parseInt(...) || 0.
editLocals(f) ==
    [NoLocals EXCEPT !.kind = "edit", !.eventId = f.id[1],
                     !.eventDate = f.event_date[1],
                     !.fullPrice = parseIntOr(f.full_price, 0),
                     !.fullQuantity = parseIntOr(f.full_quantity, 0),
                     !.concessionPrice = parseIntOr(f.concession_price, 0),
                     !.concessionQuantity = parseIntOr(f.concession_quantity, 0)]

\* router.use, then the synchronous part of the handler: the UPDATE of the
\* event is issued when every check passes.
EditArrive(r, authenticated, f) ==
    /\ Idle(r)
    /\ UNCHANGED <<db, clock, tz, site, sqlite_sequence, form, view, nreq>>
    /\ IF ~authenticated THEN Respond(r, Redirect("/login"))
       ELSE IF isBadId(f.id) THEN Respond(r, Status(400))
       ELSE IF trim(sanitizeInput(f.title)) = <<>> THEN Respond(r, Status(400))
       ELSE IF f.event_date = <<>> THEN Respond(r, Status(400))
       ELSE IF ~isValidFutureDate(f.event_date[1]) THEN Respond(r, Status(400))
       ELSE IF anyNegative(parseIntOr(f.full_price, 0),
                           parseIntOr(f.concession_price, 0),
                           parseIntOr(f.full_quantity, 0),
                           parseIntOr(f.concession_quantity, 0))
       THEN Respond(r, Status(400))
       ELSE /\ pc' = [pc EXCEPT ![r] = "e_update"]
            /\ loc' = [loc EXCEPT ![r] = editLocals(f)]
            /\ resp' = [resp EXCEPT ![r] = NoResponse]

\* UPDATE events SET ..., event_date = ?, ... WHERE event_id = ?
updateEvent(e, day) ==
    [i \in DOMAIN events |->
        IF events[i].event_id = e THEN [events[i] EXCEPT !.event_date = day]
        ELSE events[i]]

\* The UPDATE runs and its callback follows: saveTicket('full', ...) issues its
\* count.
EditEvent(r, err) ==
    /\ pc[r] = "e_update"
    /\ UNCHANGED <<tickets, bookings, waitlist, clock, tz, site, sqlite_sequence,
                   form, view, nreq>>
    /\ IF err
       THEN /\ UNCHANGED events
            /\ Respond(r, Status(500))
       ELSE /\ events' = updateEvent(loc[r].eventId, loc[r].eventDate)
            /\ Await(r, "e_count", [loc[r] EXCEPT !.ticketType = "full"])

\* SELECT COUNT(*) AS count FROM tickets WHERE event_id = ? AND type = ?
countTickets(e, type) ==
    Len(SelectSeq(tickets, LAMBDA k : k.event_id = e /\ k.type = type))

\* Callback of the count: the UPDATE or the INSERT of the tier is issued.
EditCount(r, err) ==
    /\ pc[r] = "e_count"
    /\ UNCHANGED <<db, clock, tz, site, sqlite_sequence, form, view, nreq>>
    /\ IF err THEN Respond(r, Status(500))
       ELSE Await(r, "e_save",
                  [loc[r] EXCEPT !.count = countTickets(loc[r].eventId,
                                                        loc[r].ticketType)])

\* UPDATE tickets SET price = ?, quantity = ? WHERE event_id = ? AND type = ?
updateTickets(e, type, price, quantity) ==
    [i \in DOMAIN tickets |->
        IF tickets[i].event_id = e /\ tickets[i].type = type
        THEN [tickets[i] EXCEPT !.price = price, !.quantity = quantity]
        ELSE tickets[i]]

\* Mutant: the tier is inserted without looking at the count.
savedTicketsInserting(l, price, quantity) ==
    Append(tickets, TicketRow(NextId("tickets"), l.eventId, l.ticketType, quantity,
                              price))

\* if (row.count > 0) UPDATE tickets ... else INSERT INTO tickets ...
savedTickets(l, price, quantity) ==
    IF l.count > 0
    THEN updateTickets(l.eventId, l.ticketType, price, quantity)
    ELSE Append(tickets, TicketRow(NextId("tickets"), l.eventId, l.ticketType,
                                   quantity, price))

\* The UPDATE or INSERT of a tier runs and its callback follows: after the full
\* tier the concession tier is saved, after the concession tier the handler
\* redirects.
EditSave(r, err) ==
    LET l == loc[r]
        isFull == l.ticketType = "full"
        price == IF isFull THEN l.fullPrice ELSE l.concessionPrice
        quantity == IF isFull THEN l.fullQuantity ELSE l.concessionQuantity
        saved == savedTickets(l, price, quantity)
    IN  /\ pc[r] = "e_save"
        /\ UNCHANGED <<events, bookings, waitlist, clock, tz, site, form, view, nreq>>
        /\ IF err \/ (Len(saved) > Len(tickets) /\ ~eventExists(l.eventId))
           THEN /\ UNCHANGED <<tickets, sqlite_sequence>>
                /\ Respond(r, Status(500))
           ELSE /\ tickets' = saved
                /\ sqlite_sequence' = IF Len(saved) > Len(tickets)
                                      THEN Allocated("tickets") ELSE sqlite_sequence
                /\ IF isFull
                   THEN Await(r, "e_count", [l EXCEPT !.ticketType = "concession"])
                   ELSE Respond(r, Redirect("/organiser"))

\* ---------------------------- GET /organiser/create, POST publish and delete
\* router.use, then the handler issues its INSERT. defaultDate.setDate(
\* defaultDate.getDate() + 7) and toISOString(): the UTC day of the instant a
\* week from now, utcDay being the UTC day of now.
CreateArrive(r, authenticated, utcDay) ==
    /\ Idle(r)
    /\ UNCHANGED <<db, clock, tz, site, sqlite_sequence, form, view, nreq>>
    /\ IF ~authenticated THEN Respond(r, Redirect("/login"))
       ELSE /\ pc' = [pc EXCEPT ![r] = "create"]
            /\ loc' = [loc EXCEPT ![r] =
                          [NoLocals EXCEPT !.kind = "create",
                                           !.eventDate = utcDay + 7]]
            /\ resp' = [resp EXCEPT ![r] = NoResponse]

\* INSERT INTO events (...) VALUES (..., 'draft') and its callback.
CreateInsert(r, err) ==
    /\ pc[r] = "create"
    /\ UNCHANGED <<tickets, bookings, waitlist, clock, tz, site, form, view, nreq>>
    /\ IF err
       THEN /\ UNCHANGED <<events, sqlite_sequence>>
            /\ Respond(r, Status(500))
       ELSE /\ events' = Append(events, EventRow(NextId("events"), "draft",
                                                 loc[r].eventDate, <<>>))
            /\ sqlite_sequence' = Allocated("events")
            /\ Respond(r, RedirectTo("/organiser/edit", NextId("events")))

\* router.use, then the synchronous part of publish or delete.
EventArrive(r, kind, authenticated, id, now) ==
    /\ Idle(r)
    /\ UNCHANGED <<db, clock, tz, site, sqlite_sequence, form, view, nreq>>
    /\ IF ~authenticated THEN Respond(r, Redirect("/login"))
       ELSE IF isBadId(id) THEN Respond(r, Status(400))
       ELSE /\ pc' = [pc EXCEPT ![r] = kind]
            /\ loc' = [loc EXCEPT ![r] =
                          [NoLocals EXCEPT !.kind = kind, !.eventId = id[1],
                                           !.now = now]]
            /\ resp' = [resp EXCEPT ![r] = NoResponse]

\* publishedAt = new Date().toISOString()
PublishArrive(r, authenticated, id) ==
    EventArrive(r, "publish", authenticated, id, clock)

\* Mutant: publishing a published event makes it a draft again.
updatePublishedToggling(e, now) ==
    [i \in DOMAIN events |->
        IF events[i].event_id = e
        THEN [events[i] EXCEPT
                 !.status = IF @ = "published" THEN "draft" ELSE "published",
                 !.published_at = <<now>>]
        ELSE events[i]]

\* UPDATE events SET status = 'published', published_at = ? WHERE event_id = ?
updatePublished(e, now) ==
    [i \in DOMAIN events |->
        IF events[i].event_id = e
        THEN [events[i] EXCEPT !.status = "published", !.published_at = <<now>>]
        ELSE events[i]]

\* The UPDATE runs and its callback follows.
PublishUpdate(r, err) ==
    /\ pc[r] = "publish"
    /\ UNCHANGED <<tickets, bookings, waitlist, clock, tz, site, sqlite_sequence,
                   form, view, nreq>>
    /\ IF err
       THEN /\ UNCHANGED events
            /\ Respond(r, Status(500))
       ELSE /\ events' = updatePublished(loc[r].eventId, loc[r].now)
            /\ Respond(r, Redirect("/organiser"))

DeleteArrive(r, authenticated, id) == EventArrive(r, "delete", authenticated, id, 0)

\* What DELETE FROM events WHERE event_id = ? leaves of a table, the table's
\* rows of the event going with it: ON DELETE CASCADE.
withoutEvent(table, e) == SelectSeq(table, LAMBDA row : row.event_id # e)

\* The DELETE runs and its callback follows.
DeleteEvent(r, err) ==
    /\ pc[r] = "delete"
    /\ UNCHANGED <<clock, tz, site, sqlite_sequence, form, view, nreq>>
    /\ IF err
       THEN /\ UNCHANGED db
            /\ Respond(r, Status(500))
       ELSE /\ events' = withoutEvent(events, loc[r].eventId)
            /\ tickets' = withoutEvent(tickets, loc[r].eventId)
            /\ bookings' = withoutEvent(bookings, loc[r].eventId)
            /\ waitlist' = withoutEvent(waitlist, loc[r].eventId)
            /\ Respond(r, Redirect("/organiser"))

\* ------------------------------------------------- POST /organiser/settings
\* router.use, then the synchronous part of the handler.
SettingsArrive(r, authenticated, f) ==
    LET siteName == trim(sanitizeInput(f.site_name))
        siteDescription == trim(sanitizeInput(f.site_description))
    IN  /\ Idle(r)
        /\ UNCHANGED <<db, clock, tz, site, sqlite_sequence, form, view, nreq>>
        /\ IF ~authenticated THEN Respond(r, Redirect("/login"))
           ELSE IF siteName = <<>> \/ siteDescription = <<>>
           THEN Respond(r, Status(400))
           ELSE /\ pc' = [pc EXCEPT ![r] = "settings"]
                /\ loc' = [loc EXCEPT ![r] =
                              [NoLocals EXCEPT !.kind = "settings",
                                               !.siteName = siteName,
                                               !.siteDescription = siteDescription]]
                /\ resp' = [resp EXCEPT ![r] = NoResponse]

\* UPDATE settings SET site_name = ?, site_description = ? WHERE id = 1
SettingsUpdate(r, err) ==
    /\ pc[r] = "settings"
    /\ UNCHANGED <<db, organisers, session, clock, tz, sqlite_sequence, form, view,
                   nreq>>
    /\ IF err
       THEN /\ UNCHANGED settings
            /\ Respond(r, Status(500))
       ELSE /\ settings' = [site_name |-> loc[r].siteName,
                            site_description |-> loc[r].siteDescription]
            /\ Respond(r, Redirect("/organiser"))

\* ------------------------------------- POST /login, POST /login/register, logout
\* if (!username || !password), then the SELECT is issued.
LoginArrive(r, username, password) ==
    /\ Idle(r)
    /\ UNCHANGED <<db, clock, tz, site, sqlite_sequence, form, view, nreq>>
    /\ IF username = "" \/ password = "" THEN Respond(r, Sent("required"))
       ELSE /\ pc' = [pc EXCEPT ![r] = "login"]
            /\ loc' = [loc EXCEPT ![r] =
                          [NoLocals EXCEPT !.kind = "login", !.username = username,
                                           !.password = password]]
            /\ resp' = [resp EXCEPT ![r] = NoResponse]

\* Mutant: the password is not compared.
selectUserByName(username, password) ==
    SelectSeq(organisers, LAMBDA o : o.username = username)

\* SELECT * FROM organisers WHERE username = ? AND password = ?
selectUser(username, password) ==
    SelectSeq(organisers, LAMBDA o : o.username = username /\ o.password = password)

\* Callback of the SELECT: req.session.authenticated = true when a row came.
LoginSelect(r, err) ==
    /\ pc[r] = "login"
    /\ UNCHANGED <<db, organisers, settings, clock, tz, sqlite_sequence, form, view,
                   nreq>>
    /\ IF err
       THEN /\ UNCHANGED session
            /\ Respond(r, Status(500))
       ELSE IF selectUser(loc[r].username, loc[r].password) # <<>>
       THEN /\ session' = [session EXCEPT ![r] = TRUE]
            /\ Respond(r, Redirect("/organiser"))
       ELSE /\ UNCHANGED session
            /\ Respond(r, Sent("incorrect"))

\* The synchronous checks of a registration, then the SELECT is issued.
RegisterArrive(r, username, password, confirm_password) ==
    /\ Idle(r)
    /\ UNCHANGED <<db, clock, tz, site, sqlite_sequence, form, view, nreq>>
    /\ IF username = "" \/ password = "" \/ confirm_password = ""
       THEN Respond(r, Sent("all required"))
       ELSE IF password # confirm_password THEN Respond(r, Sent("do not match"))
       ELSE IF Len(password) < 6 THEN Respond(r, Sent("too short"))
       ELSE /\ pc' = [pc EXCEPT ![r] = "g_select"]
            /\ loc' = [loc EXCEPT ![r] =
                          [NoLocals EXCEPT !.kind = "register", !.username = username,
                                           !.password = password]]
            /\ resp' = [resp EXCEPT ![r] = NoResponse]

\* SELECT * FROM organisers WHERE username = ?
selectUsername(username) == SelectSeq(organisers, LAMBDA o : o.username = username)

\* Callback of the SELECT: the INSERT is issued when the username is free.
RegisterSelect(r, err) ==
    /\ pc[r] = "g_select"
    /\ UNCHANGED <<db, clock, tz, site, sqlite_sequence, form, view, nreq>>
    /\ IF err THEN Respond(r, Status(500))
       ELSE IF selectUsername(loc[r].username) # <<>> THEN Respond(r, Sent("exists"))
       ELSE Await(r, "g_insert", loc[r])

\* INSERT INTO organisers (username, password, created_at) VALUES (?, ?, ?);
\* username is UNIQUE.
RegisterInsert(r, err) ==
    /\ pc[r] = "g_insert"
    /\ UNCHANGED <<db, settings, session, clock, tz, form, view, nreq>>
    /\ IF err \/ selectUsername(loc[r].username) # <<>>
       THEN /\ UNCHANGED <<organisers, sqlite_sequence>>
            /\ Respond(r, Status(500))
       ELSE /\ organisers' = Append(organisers,
                                    OrganiserRow(NextId("organisers"), loc[r].username,
                                                 loc[r].password))
            /\ sqlite_sequence' = Allocated("organisers")
            /\ Respond(r, Redirect("/login?message"))

\* app.get('/logout'): req.session.destroy(), then res.redirect('/')
Logout(r) ==
    /\ Idle(r)
    /\ UNCHANGED <<db, organisers, settings, clock, tz, sqlite_sequence, form, view,
                   nreq>>
    /\ session' = [session EXCEPT ![r] = FALSE]
    /\ Respond(r, Redirect("/"))

\* Time passes.
Tick ==
    /\ clock < MaxClock
    /\ clock' = clock + 1
    /\ UNCHANGED <<db, tz, site, sqlite_sequence, form, pc, loc, resp, view, nreq>>

\* ------------------------------------------------------------ inputs, Init
\* Form texts: a name that needs sanitizing and trimming, an email.
GoodName == <<" ", "<", "a", "l", ">">>
GoodEmail == <<"a", "@", "b", ".", "c">>
QuantityInputs == {<<>>, <<-1>>, <<1>>, <<2>>, <<11>>}
TzOffsets == {-5, 0}

BookForm(id, n, m, f, c) ==
    [id |-> id, attendee_name |-> n, attendee_email |-> m,
     full_quantity |-> f, concession_quantity |-> c]

\* Well-formed requests for every event and every pair of quantities, and one
\* request for each of the other rejections: no event of that id, an id that is
\* no number, a name too short, a malformed email; and one that gives an email.
BookForms ==
    {BookForm(<<e>>, GoodName, <<>>, f, c) :
        e \in EventIds, f \in QuantityInputs, c \in QuantityInputs}
    \cup {BookForm(<<MaxEvents + 1>>, GoodName, <<>>, <<1>>, <<>>),
          BookForm(<<>>, GoodName, <<>>, <<1>>, <<>>),
          BookForm(<<1>>, <<"a", " ">>, <<>>, <<1>>, <<>>),
          BookForm(<<1>>, GoodName, <<"a", "@", "b">>, <<1>>, <<>>),
          BookForm(<<1>>, GoodName, GoodEmail, <<1>>, <<1>>)}

\* What the organiser configured for an event: status, day, and its ticket rows.
EventSetups ==
    {[status |-> "published", day |-> d, full |-> <<2>>, concession |-> <<1>>] :
        d \in {Today - 1, Today}}
    \cup {[status |-> "published", day |-> Today + 1, full |-> <<2>>,
           concession |-> <<12>>],
          [status |-> "published", day |-> Today + 1, full |-> <<1>>,
           concession |-> <<>>],
          [status |-> "draft", day |-> Today + 1, full |-> <<2>>,
           concession |-> <<1>>]}

\* The other events: published, tomorrow, one ticket of each tier.
OtherSetup ==
    [status |-> "published", day |-> Today + 1, full |-> <<1>>, concession |-> <<1>>]

RECURSIVE ticketsOf(_, _, _)
ticketsOf(setup, e, acc) ==
    IF e > MaxEvents THEN acc
    ELSE LET f == IF setup[e].full = <<>> THEN <<>>
                  ELSE <<TicketRow(Len(acc) + 1, e, "full", setup[e].full[1], 10)>>
             c == IF setup[e].concession = <<>> THEN <<>>
                  ELSE <<TicketRow(Len(acc) + Len(f) + 1, e, "concession",
                                   setup[e].concession[1], 5)>>
         IN  ticketsOf(setup, e + 1, acc \o f \o c)

InitDb(setup) ==
    /\ events = [e \in EventIds |->
                    EventRow(e, setup[e].status, setup[e].day,
                             IF setup[e].status = "published" THEN <<0>> ELSE <<>>)]
    /\ tickets = ticketsOf(setup, 1, <<>>)
    /\ bookings = <<>>
    /\ waitlist = <<>>
    /\ organisers = <<OrganiserRow(1, "admin", "admin123")>>
    /\ settings = [site_name |-> <<"F">>, site_description |-> <<"c">>]
    /\ sqlite_sequence = [events |-> MaxEvents, tickets |-> Len(ticketsOf(setup, 1, <<>>)),
                          bookings |-> 0, waitlist |-> 0, organisers |-> 1]

InitHandlers ==
    /\ clock = 0
    /\ form = [r \in Slots |-> NoForm]
    /\ pc = [r \in Slots |-> "idle"]
    /\ loc = [r \in Slots |-> NoLocals]
    /\ resp = [r \in Slots |-> NoResponse]
    /\ view = NoView
    /\ nreq = 0
    /\ session = [r \in Slots |-> FALSE]

InitWith(setups, offsets) ==
    /\ \E first \in setups :
          InitDb([e \in EventIds |-> IF e = 1 THEN first ELSE OtherSetup])
    /\ tz \in offsets
    /\ InitHandlers

Init == InitWith(EventSetups, TzOffsets)

\* ------------------------------------------------------------ bookings only
BookSteps(r) ==
    \/ BookStart(r)
    \/ \E err \in BOOLEAN : BookEvent(r, err)
    \/ \E err \in BOOLEAN : BookTickets(r, err)
    \/ \E err \in BOOLEAN : BookBookings(r, err)
    \/ \E err \in BOOLEAN : BookInsertFull(r, err)
    \/ \E err \in BOOLEAN : BookInsertConcession(r, err)

BookRequest(r) == \E f \in BookForms : BookArrive(r, f)

\* Booking requests one at a time: a request starts when no handler is in flight.
NextBookSeq ==
    \/ (\A r \in Slots : Idle(r)) /\ BookRequest(1)
    \/ BookSteps(1)

SpecBookSeq == Init /\ [][NextBookSeq]_vars

\* Booking requests whose callbacks interleave: well-formed requests for the
\* events with one or two tickets of a tier, on a server that runs on UTC.
ConcSetups == {s \in EventSetups : s.status = "published" /\ s.day = Today}

ConcForms ==
    {BookForm(<<e>>, GoodName, <<>>, f, c) :
        e \in {1}, f \in {<<>>, <<1>>, <<2>>}, c \in {<<>>, <<1>>}}

InitConc == InitWith(ConcSetups, {0})

NextBookConc ==
    \/ \E r \in Slots : \E f \in ConcForms : BookArrive(r, f)
    \/ \E r \in Slots : BookSteps(r)

SpecBookConc == InitConc /\ [][NextBookConc]_vars

\* Reads between bookings: bookings of event 1, event pages and the organiser's
\* dashboard are requested one at a time, and time passes between requests.
PageIds == {<<>>, <<1>>, <<MaxEvents + 1>>}

PageSteps(r) ==
    \/ PageStart(r)
    \/ \E err \in BOOLEAN : PageEvent(r, err)
    \/ \E err \in BOOLEAN : PageTickets(r, err)
    \/ \E err \in BOOLEAN : PageBookings(r, err)
    \/ \E err \in BOOLEAN : PageWaitlist(r, err)

\* The queries of the first promise may fail, those of the others succeed.
ChainErrors(i) == IF i = 1 THEN BOOLEAN ELSE {FALSE}

DashSteps(r) ==
    \/ \E err \in BOOLEAN : DashSettings(r, err)
    \/ \E err \in BOOLEAN : DashPublished(r, err)
    \/ \E err \in BOOLEAN : DashDraft(r, err)
    \/ \E i \in EventIds : \E err \in ChainErrors(i) : DashTickets(r, i, err)
    \/ \E i \in EventIds : \E err \in ChainErrors(i) : DashBookings(r, i, err)

AllIdle == \A r \in Slots : Idle(r)

ReadForms == {BookForm(<<1>>, GoodName, <<>>, <<1>>, <<1>>)}

NextReads ==
    \/ AllIdle /\ \E f \in ReadForms : BookArrive(1, f)
    \/ BookSteps(1)
    \/ AllIdle /\ \E id \in PageIds : PageArrive(1, id)
    \/ PageSteps(1)
    \/ AllIdle /\ \E authenticated \in BOOLEAN : DashArrive(1, authenticated)
    \/ DashSteps(1)
    \/ AllIdle /\ Tick

SpecReads == InitConc /\ [][NextReads]_vars

\* Event pages between racing bookings: the callbacks of the booking requests
\* for event 1 interleave; an event page is requested when no handler is in
\* flight and is served before the next request starts.
PagesForms ==
    {BookForm(<<1>>, GoodName, <<>>, <<2>>, <<>>),
     BookForm(<<1>>, GoodName, <<>>, <<>>, <<1>>)}

\* No page request is in flight.
NoRead == \A r \in Slots : loc[r].kind # "page"

NextPages ==
    \/ NoRead /\ \E r \in Slots : \E f \in PagesForms : BookArrive(r, f)
    \/ \E r \in Slots : BookSteps(r)
    \/ AllIdle /\ \E r \in Slots : \E id \in PageIds : PageArrive(r, id)
    \/ \E r \in Slots : PageSteps(r)

SpecPages == InitConc /\ [][NextPages]_vars

\* The waitlist, one request at a time: joins, served in the first or the last
\* slot, and the organiser's notify and remove, served in the first.
JoinForm(id, n, m, t, q) ==
    [id |-> id, attendee_name |-> n, attendee_email |-> m, ticket_type |-> t,
     quantity |-> q]

OtherEmail == <<"b", "@", "b", ".", "c">>

\* Requests for event 1 with an email, the same email after a space, and
\* another email; one for the last event; and two that are rejected before the
\* table is read: no event of that id, no email.
JoinForms ==
    {JoinForm(<<1>>, GoodName, m, <<>>, <<>>) :
        m \in {GoodEmail, <<" ">> \o GoodEmail, OtherEmail}}
    \cup {JoinForm(<<MaxEvents>>, GoodName, GoodEmail, <<>>, <<>>),
          JoinForm(<<MaxEvents + 1>>, GoodName, GoodEmail, <<>>, <<>>),
          JoinForm(<<1>>, GoodName, <<>>, <<"concession">>, <<2>>)}

WaitlistIds == {<<>>} \cup {<<i>> : i \in 1..MaxRequests}

JoinSteps(r) ==
    \/ JoinStart(r)
    \/ \E err \in BOOLEAN : JoinEvent(r, err)
    \/ \E err \in BOOLEAN : JoinExisting(r, err)
    \/ \E err \in BOOLEAN : JoinInsert(r, err)
    \/ \E err \in BOOLEAN : JoinPosition(r, err)

UpdateArrives(r) ==
    \/ \E authenticated \in BOOLEAN, id \in WaitlistIds :
          RemoveArrive(r, authenticated, id)
    \/ \E authenticated \in BOOLEAN, id \in WaitlistIds :
          NotifyArrive(r, authenticated, id)

UpdateSteps(r) ==
    \/ \E err \in BOOLEAN : RemoveUpdate(r, err)
    \/ \E err \in BOOLEAN : NotifyUpdate(r, err)

NextWaitSeq ==
    \/ AllIdle /\ \E r \in {1, MaxSlots} : \E f \in JoinForms : JoinArrive(r, f)
    \/ \E r \in {1, MaxSlots} : JoinSteps(r)
    \/ AllIdle /\ UpdateArrives(1)
    \/ UpdateSteps(1)

SpecWaitSeq == InitConc /\ [][NextWaitSeq]_vars

\* The waitlist with joins whose callbacks interleave while time passes, every
\* query of a join succeeding; then, no handler being in flight, the organiser
\* lists, and lists again.
RacingForms ==
    {JoinForm(<<1>>, GoodName, GoodEmail, <<>>, <<>>),
     JoinForm(<<1>>, GoodName, OtherEmail, <<>>, <<>>),
     JoinForm(<<MaxEvents>>, GoodName, GoodEmail, <<>>, <<>>)}

\* The steps of a join whose queries all succeed.
JoinStepsOk(r) ==
    \/ JoinStart(r)
    \/ JoinEvent(r, FALSE)
    \/ JoinExisting(r, FALSE)
    \/ JoinInsert(r, FALSE)
    \/ JoinPosition(r, FALSE)

NextWaitConc ==
    \/ view = NoView /\ \E r \in Slots : \E f \in RacingForms : JoinArrive(r, f)
    \/ \E r \in Slots : JoinStepsOk(r)
    \/ AllIdle /\ \E authenticated \in BOOLEAN : ListArrive(1, authenticated)
    \/ \E err \in BOOLEAN : ListEntries(1, err)
    \/ view = NoView /\ Tick

SpecWaitConc == InitConc /\ [][NextWaitConc]_vars

\* The waitlist, one request at a time, with time passing between requests:
\* joins for two emails and two events, and the organiser's notify and remove.
TimedForms ==
    {JoinForm(<<1>>, GoodName, GoodEmail, <<>>, <<>>),
     JoinForm(<<1>>, GoodName, OtherEmail, <<>>, <<>>),
     JoinForm(<<MaxEvents>>, GoodName, GoodEmail, <<>>, <<>>)}

NextWaitTimed ==
    \/ AllIdle /\ \E f \in TimedForms : JoinArrive(1, f)
    \/ JoinStart(1)
    \/ JoinEvent(1, FALSE)
    \/ JoinExisting(1, FALSE)
    \/ JoinInsert(1, FALSE)
    \/ \E err \in BOOLEAN : JoinPosition(1, err)
    \/ AllIdle /\ \E id \in WaitlistIds : RemoveArrive(1, TRUE, id)
    \/ AllIdle /\ \E id \in WaitlistIds : NotifyArrive(1, TRUE, id)
    \/ RemoveUpdate(1, FALSE)
    \/ NotifyUpdate(1, FALSE)
    \/ AllIdle /\ Tick

SpecWaitTimed == InitConc /\ [][NextWaitTimed]_vars

\* The organiser saves tier quantities between bookings, one request at a time.
EditForm(id, title, day, fullPrice, fullQuantity, concessionPrice, concessionQuantity) ==
    [id |-> id, title |-> title, event_date |-> day,
     full_price |-> fullPrice, full_quantity |-> fullQuantity,
     concession_price |-> concessionPrice, concession_quantity |-> concessionQuantity]

GoodTitle == <<"T">>

\* Saves of event 1 with a full tier of 1 or 3 and a concession tier of none or
\* 1, and one save for each rejection: an id that is no number, a blank title,
\* no date, a date that has passed, a negative quantity.
EditForms ==
    {EditForm(<<1>>, GoodTitle, <<Today>>, <<10>>, f, <<5>>, c) :
        f \in {<<1>>, <<3>>}, c \in {<<>>, <<1>>}}
    \cup {EditForm(<<>>, GoodTitle, <<Today>>, <<10>>, <<1>>, <<5>>, <<1>>),
          EditForm(<<1>>, <<" ">>, <<Today>>, <<10>>, <<1>>, <<5>>, <<1>>),
          EditForm(<<1>>, GoodTitle, <<>>, <<10>>, <<1>>, <<5>>, <<1>>),
          EditForm(<<1>>, GoodTitle, <<Today - 1>>, <<10>>, <<1>>, <<5>>, <<1>>),
          EditForm(<<1>>, GoodTitle, <<Today>>, <<10>>, <<-1>>, <<5>>, <<1>>)}

EditSteps(r) ==
    \/ \E err \in BOOLEAN : EditEvent(r, err)
    \/ \E err \in BOOLEAN : EditCount(r, err)
    \/ \E err \in BOOLEAN : EditSave(r, err)

EditBookForms ==
    {BookForm(<<1>>, GoodName, <<>>, <<2>>, <<>>),
     BookForm(<<1>>, GoodName, <<>>, <<1>>, <<1>>)}

NextEdit ==
    \/ AllIdle /\ \E f \in EditBookForms : BookArrive(1, f)
    \/ BookSteps(1)
    \/ AllIdle /\ \E authenticated \in BOOLEAN, f \in EditForms :
                     EditArrive(1, authenticated, f)
    \/ EditSteps(1)

SpecEdit == InitConc /\ [][NextEdit]_vars

\* Saves of one event whose callbacks interleave: event 1 has a full tier and
\* no concession tier yet, and every save gives both tiers a quantity.
InitEditConc ==
    InitWith({s \in EventSetups : s.status = "published" /\ s.concession = <<>>}, {0})

RacingEditForms ==
    {EditForm(<<1>>, GoodTitle, <<Today + 1>>, <<10>>, <<f>>, <<5>>, <<1>>) :
        f \in {1, 2}}

NextEditConc ==
    \/ \E r \in Slots : \E f \in RacingEditForms : EditArrive(r, TRUE, f)
    \/ \E r \in Slots : EditSteps(r)

SpecEditConc == InitEditConc /\ [][NextEditConc]_vars

\* Everything that could promote a waiting attendee, one request at a time:
\* bookings and joins for event 1, the organiser raising or lowering its tier
\* quantities, marking entries notified or removed, and deleting the event.
PromoteEditForms ==
    {EditForm(<<1>>, GoodTitle, <<Today>>, <<10>>, <<f>>, <<5>>, <<1>>) : f \in {1, 3}}

PromoteJoinForms == {JoinForm(<<1>>, GoodName, GoodEmail, <<>>, <<>>)}

NextPromote ==
    \/ AllIdle /\ \E f \in ReadForms : BookArrive(1, f)
    \/ BookStart(1)
    \/ BookEvent(1, FALSE)
    \/ BookTickets(1, FALSE)
    \/ BookBookings(1, FALSE)
    \/ BookInsertFull(1, FALSE)
    \/ BookInsertConcession(1, FALSE)
    \/ AllIdle /\ \E f \in PromoteEditForms : EditArrive(1, TRUE, f)
    \/ EditEvent(1, FALSE)
    \/ EditCount(1, FALSE)
    \/ EditSave(1, FALSE)
    \/ AllIdle /\ \E f \in PromoteJoinForms : JoinArrive(1, f)
    \/ JoinStepsOk(1)
    \/ AllIdle /\ \E id \in WaitlistIds : RemoveArrive(1, TRUE, id)
    \/ AllIdle /\ \E id \in WaitlistIds : NotifyArrive(1, TRUE, id)
    \/ RemoveUpdate(1, FALSE)
    \/ NotifyUpdate(1, FALSE)
    \/ AllIdle /\ DeleteArrive(1, TRUE, <<1>>)
    \/ DeleteEvent(1, FALSE)

SpecPromote == InitConc /\ [][NextPromote]_vars

\* Two browsers, each served in its own slot, one request at a time: logins,
\* registrations and logouts, every organiser route that writes, and a join
\* that gives the organiser an entry to mark.
Credentials ==
    {<<"admin", "admin123">>, <<"admin", "wrong1">>, <<"chef", "secret1">>,
     <<"", "admin123">>}

Registrations ==
    {<<"chef", "secret1", "secret1">>, <<"chef", "secret1", "secret2">>,
     <<"chef", "short", "short">>, <<"admin", "secret1", "secret1">>,
     <<"chef", "secret1", "">>}

SettingsForm == [site_name |-> <<"<", "G", ">">>, site_description |-> <<"d">>]

OrganiserEditForm == EditForm(<<1>>, GoodTitle, <<Today>>, <<10>>, <<3>>, <<5>>, <<1>>)

\* The UTC days the instant now can fall on, the server's day being Today.
UtcDays == IF tz < 0 THEN {Today, Today + 1} ELSE {Today}

OrganiserArrives(r) ==
    \/ \E utcDay \in UtcDays :
          sqlite_sequence.events <= MaxEvents /\ CreateArrive(r, session[r], utcDay)
    \/ EditArrive(r, session[r], OrganiserEditForm)
    \/ PublishArrive(r, session[r], <<MaxEvents + 1>>)
    \/ DeleteArrive(r, session[r], <<1>>)
    \/ \E f \in {SettingsForm, [SettingsForm EXCEPT !.site_name = <<" ">>]} :
          SettingsArrive(r, session[r], f)
    \/ RemoveArrive(r, session[r], <<1>>)
    \/ NotifyArrive(r, session[r], <<1>>)

OrganiserSteps(r) ==
    \/ CreateInsert(r, FALSE)
    \/ EditEvent(r, FALSE)
    \/ EditCount(r, FALSE)
    \/ EditSave(r, FALSE)
    \/ PublishUpdate(r, FALSE)
    \/ DeleteEvent(r, FALSE)
    \/ SettingsUpdate(r, FALSE)
    \/ RemoveUpdate(r, FALSE)
    \/ NotifyUpdate(r, FALSE)

AccountArrives(r) ==
    \/ \E c \in Credentials : LoginArrive(r, c[1], c[2])
    \/ \E g \in Registrations : RegisterArrive(r, g[1], g[2], g[3])
    \/ Logout(r)

AccountSteps(r) ==
    \/ \E err \in BOOLEAN : LoginSelect(r, err)
    \/ RegisterSelect(r, FALSE)
    \/ RegisterInsert(r, FALSE)

\* The second browser logs in and out, and asks for two of the routes.
OtherArrives(r) ==
    \/ \E c \in {<<"admin", "admin123">>, <<"admin", "wrong1">>} :
          LoginArrive(r, c[1], c[2])
    \/ Logout(r)
    \/ SettingsArrive(r, session[r], SettingsForm)
    \/ RemoveArrive(r, session[r], <<1>>)

NextOrganiser ==
    \/ AllIdle /\ AccountArrives(1)
    \/ AllIdle /\ OrganiserArrives(1)
    \/ AllIdle /\ OtherArrives(MaxSlots)
    \/ \E r \in {1, MaxSlots} : AccountSteps(r)
    \/ \E r \in {1, MaxSlots} : OrganiserSteps(r)
    \/ AllIdle /\ \E f \in PromoteJoinForms : JoinArrive(1, f)
    \/ JoinStepsOk(1)

SpecOrganiser == InitConc /\ [][NextOrganiser]_vars

\* Bookings one at a time while time passes, also between the callbacks of one
\* request: requests for one tier, for both, with an email, and with a negative
\* quantity beside a positive one.
TimedBookForms ==
    {BookForm(<<1>>, GoodName, <<>>, <<2>>, <<>>),
     BookForm(<<1>>, GoodName, <<>>, <<>>, <<1>>),
     BookForm(<<1>>, GoodName, GoodEmail, <<1>>, <<1>>),
     BookForm(<<1>>, GoodName, <<>>, <<-1>>, <<2>>)}

NextBookTimed ==
    \/ AllIdle /\ \E f \in TimedBookForms : BookArrive(1, f)
    \/ BookStart(1)
    \/ BookEvent(1, FALSE)
    \/ BookTickets(1, FALSE)
    \/ BookBookings(1, FALSE)
    \/ \E err \in BOOLEAN : BookInsertFull(1, err)
    \/ \E err \in BOOLEAN : BookInsertConcession(1, err)
    \/ Tick

SpecBookTimed == InitWith(EventSetups, {0}) /\ [][NextBookTimed]_vars

\* The organiser moves event 1 to a later day than the last event, attendees
\* join the waitlists of both, and the organiser lists; one request at a time.
LaterDateForm ==
    EditForm(<<1>>, GoodTitle, <<Today + 2>>, <<10>>, <<2>>, <<5>>, <<1>>)

DatedJoinForms ==
    {JoinForm(<<e>>, GoodName, GoodEmail, <<>>, <<>>) : e \in {1, MaxEvents}}

NextListDates ==
    \/ AllIdle /\ view = NoView /\ EditArrive(1, TRUE, LaterDateForm)
    \/ EditEvent(1, FALSE)
    \/ EditCount(1, FALSE)
    \/ EditSave(1, FALSE)
    \/ AllIdle /\ \E f \in DatedJoinForms : JoinArrive(1, f)
    \/ JoinStepsOk(1)
    \/ AllIdle /\ ListArrive(1, TRUE)
    \/ ListEntries(1, FALSE)
    \/ AllIdle /\ Tick

SpecListDates == InitConc /\ [][NextListDates]_vars

\* The list between marks: up to MaxEntries attendees join the waitlist of
\* event 1 one at a time, and time may pass between their requests; then the
\* organiser reads the list, marks entries notified or removed, and reads the
\* list again.
ThirdEmail == <<"c", "@", "b", ".", "c">>
MarkedJoinForms ==
    {JoinForm(<<1>>, GoodName, m, <<>>, <<>>) : m \in {GoodEmail, OtherEmail, ThirdEmail}}
MarkIds == {<<i>> : i \in 1..MaxEntries}

NextListMarks ==
    \/ AllIdle /\ view = NoView
          /\ \E f \in MarkedJoinForms : JoinArriveWithin(1, f, MaxEntries)
    \/ JoinStepsOk(1)
    \/ AllIdle /\ view # NoView /\ \E id \in MarkIds : RemoveArrive(1, TRUE, id)
    \/ RemoveUpdate(1, FALSE)
    \/ AllIdle /\ view # NoView /\ \E id \in MarkIds : NotifyArrive(1, TRUE, id)
    \/ NotifyUpdate(1, FALSE)
    \/ AllIdle /\ ListArrive(1, TRUE)
    \/ ListEntries(1, FALSE)
    \/ AllIdle /\ view = NoView /\ Tick

SpecListMarks == InitConc /\ [][NextListMarks]_vars

\* Positions told and positions listed: joins, notify and remove are handled
\* one at a time by the first handler, the organiser's list by the last, no
\* two requests are in flight together, and time may pass between requests.
JoinListForms ==
    {JoinForm(<<1>>, GoodName, m, <<>>, <<>>) : m \in {GoodEmail, OtherEmail}}

NextJoinList ==
    \/ AllIdle /\ \E f \in JoinListForms : JoinArrive(1, f)
    \/ JoinStepsOk(1)
    \/ AllIdle /\ \E id \in {<<1>>, <<MaxRequests>>} : RemoveArrive(1, TRUE, id)
    \/ AllIdle /\ NotifyArrive(1, TRUE, <<1>>)
    \/ RemoveUpdate(1, FALSE)
    \/ NotifyUpdate(1, FALSE)
    \/ AllIdle /\ ListArrive(MaxSlots, TRUE)
    \/ ListEntries(MaxSlots, FALSE)
    \/ AllIdle /\ Tick

SpecJoinList == InitConc /\ [][NextJoinList]_vars

\* What a join request may carry: an event that is published, a draft or
\* missing; a name of two letters or of one; an email that is well formed,
\* malformed or missing; and a quantity that is missing, zero, negative, within
\* the limits or above them.  Requests are handled one at a time.
InputSetups == {s \in EventSetups : s.status = "draft" \/ s.day = Today}
InputQuantities ==
    {<<>>, <<0>>, <<-1>>, <<1>>, <<MAX_TICKETS_PER_BOOKING>>,
     <<MAX_TICKETS_PER_BOOKING + 1>>}
InputForms ==
    {JoinForm(<<e>>, n, m, <<>>, q) :
        e \in {1, MaxEvents + 1},
        n \in {GoodName, <<"a", " ">>},
        m \in {GoodEmail, OtherEmail, <<"a", "@", "b">>, <<>>},
        q \in InputQuantities}

NextJoinInputs ==
    \/ AllIdle /\ \E f \in InputForms : JoinArrive(1, f)
    \/ JoinSteps(1)

SpecJoinInputs == InitWith(InputSetups, {0}) /\ [][NextJoinInputs]_vars

\* Tier labels: bookings of either tier and joins that ask for the default
\* tier, for a concession and for a tier the site does not sell, one request
\* at a time.
TierBookForms ==
    {BookForm(<<1>>, GoodName, <<>>, <<1>>, <<>>),
     BookForm(<<1>>, GoodName, GoodEmail, <<1>>, <<1>>)}
TierJoinForms ==
    {JoinForm(<<e>>, GoodName, m, t, <<>>) :
        e \in {1, MaxEvents}, m \in {GoodEmail, OtherEmail},
        t \in {<<>>, <<"concession">>, <<"vip">>}}

NextTiers ==
    \/ AllIdle /\ \E f \in TierBookForms : BookArrive(1, f)
    \/ BookSteps(1)
    \/ AllIdle /\ \E f \in TierJoinForms : JoinArrive(1, f)
    \/ JoinSteps(1)

SpecTiers == InitConc /\ [][NextTiers]_vars

\* Confirmations: the first handler takes bookings of event 1 under one name,
\* one at a time, and the last handler the confirmation page a browser asks
\* for after a booking; time may pass between requests.
ConfirmBookForms ==
    {BookForm(<<1>>, GoodName, <<>>, <<1>>, <<>>),
     BookForm(<<1>>, GoodName, GoodEmail, <<1>>, <<1>>)}
ConfirmIds == {<<>>, <<1>>, <<MaxEvents + 1>>}
ConfirmNames == {<<>>, trim(sanitizeInput(GoodName)), <<"b", "o">>}

NextConfirm ==
    \/ AllIdle /\ \E f \in ConfirmBookForms : BookArrive(1, f)
    \/ BookStart(1) \/ BookEvent(1, FALSE) \/ BookTickets(1, FALSE)
    \/ BookBookings(1, FALSE) \/ BookInsertFull(1, FALSE)
    \/ BookInsertConcession(1, FALSE)
    \/ AllIdle /\ \E id \in ConfirmIds, name \in ConfirmNames :
                     ConfirmArrive(MaxSlots, id, name)
    \/ \E err \in BOOLEAN : ConfirmEvent(MaxSlots, err)
    \/ \E err \in BOOLEAN : ConfirmBookings(MaxSlots, err)
    \/ \E err \in BOOLEAN : ConfirmTickets(MaxSlots, err)
    \/ AllIdle /\ Tick

SpecConfirm == InitConc /\ [][NextConfirm]_vars

\* Deleting under requests in flight: the first handler takes a booking, a
\* join or a save for event 1, and the last handler deletes the event at any
\* moment, also between two callbacks of the first.
DeleteBookForms == {BookForm(<<1>>, GoodName, GoodEmail, <<1>>, <<1>>)}
DeleteJoinForms == {JoinForm(<<1>>, GoodName, GoodEmail, <<>>, <<>>)}
DeleteEditForms == {EditForm(<<1>>, GoodTitle, <<Today>>, <<10>>, <<3>>, <<5>>, <<1>>)}

NextDelete ==
    \/ \E f \in DeleteBookForms : BookArrive(1, f)
    \/ BookStart(1) \/ BookEvent(1, FALSE) \/ BookTickets(1, FALSE)
    \/ BookBookings(1, FALSE) \/ BookInsertFull(1, FALSE)
    \/ BookInsertConcession(1, FALSE)
    \/ \E f \in DeleteJoinForms : JoinArrive(1, f)
    \/ JoinStepsOk(1)
    \/ \E f \in DeleteEditForms : EditArrive(1, TRUE, f)
    \/ EditEvent(1, FALSE) \/ EditCount(1, FALSE) \/ EditSave(1, FALSE)
    \/ \E id \in {<<1>>, <<MaxEvents>>} : DeleteArrive(MaxSlots, TRUE, id)
    \/ DeleteEvent(MaxSlots, FALSE)

SpecDelete ==
    InitWith({s \in EventSetups :
                 s.status = "published" /\ (s.day = Today \/ s.concession = <<>>)}, {0})
        /\ [][NextDelete]_vars

\* The life of an event: the organiser creates events, publishes event 1 or
\* the first event created, saves event 1 and deletes it, one request at a
\* time in the first handler; the last handler takes a booking or a join for
\* event 1 that starts when no request is in flight, and the organiser creates,
\* publishes and deletes between its callbacks; time may pass.
LifeSetups == {s \in EventSetups : s.status = "draft" \/ s.day = Today}
LifeBookForms == {BookForm(<<1>>, GoodName, <<>>, <<1>>, <<>>)}

NextLife ==
    \/ /\ Idle(1) /\ sqlite_sequence.events <= MaxEvents
       /\ CreateArrive(1, TRUE, Today)
    \/ CreateInsert(1, FALSE)
    \/ \E id \in {<<1>>, <<MaxEvents + 1>>} : PublishArrive(1, TRUE, id)
    \/ PublishUpdate(1, FALSE)
    \/ AllIdle /\ EditArrive(1, TRUE, OrganiserEditForm)
    \/ EditEvent(1, FALSE) \/ EditCount(1, FALSE) \/ EditSave(1, FALSE)
    \/ DeleteArrive(1, TRUE, <<1>>)
    \/ DeleteEvent(1, FALSE)
    \/ AllIdle /\ \E f \in LifeBookForms : BookArrive(MaxSlots, f)
    \/ BookStart(MaxSlots) \/ BookEvent(MaxSlots, FALSE)
    \/ BookTickets(MaxSlots, FALSE) \/ BookBookings(MaxSlots, FALSE)
    \/ BookInsertFull(MaxSlots, FALSE)
    \/ AllIdle /\ \E f \in PromoteJoinForms : JoinArrive(MaxSlots, f)
    \/ JoinStepsOk(MaxSlots)
    \/ AllIdle /\ Tick

SpecLife == InitWith(LifeSetups, {0}) /\ [][NextLife]_vars

\* Requests and their responses: the first handler takes bookings and the last
\* takes joins, well formed or not, their callbacks interleave and every query
\* may fail; every database call that was issued invokes its callback in the
\* end, and the synchronous part of a handler runs once the request is in.
RespondBookForms ==
    {BookForm(<<1>>, GoodName, GoodEmail, <<1>>, <<1>>),
     BookForm(<<1>>, GoodName, <<>>, <<>>, <<>>),
     BookForm(<<>>, GoodName, <<>>, <<1>>, <<>>)}
RespondJoinForms ==
    {JoinForm(<<1>>, GoodName, GoodEmail, <<>>, <<>>),
     JoinForm(<<1>>, GoodName, <<>>, <<>>, <<>>),
     JoinForm(<<MaxEvents + 1>>, GoodName, GoodEmail, <<>>, <<>>)}

NextRespond ==
    \/ \E f \in RespondBookForms : BookArrive(1, f)
    \/ BookSteps(1)
    \/ \E f \in RespondJoinForms : JoinArrive(MaxSlots, f)
    \/ JoinSteps(MaxSlots)

SpecRespond ==
    /\ InitConc
    /\ [][NextRespond]_vars
    /\ WF_vars(BookSteps(1))
    /\ WF_vars(JoinSteps(MaxSlots))

\* ======================================================== properties
\* The claims speak of the tables themselves, not of what a handler read.
RowsFor(e, t) == SelectSeq(bookings, LAMBDA b : b.event_id = e /\ b.ticket_type = t)

\* Sum of the quantities of the Booking rows of tier t of event e.
Booked(e, t) == sumQuantity(RowsFor(e, t))

TierRows(e, t) == SelectSeq(tickets, LAMBDA k : k.event_id = e /\ k.type = t)

\* The configured quantity of tier t of event e; a tier without a row has none.
Configured(e, t) == IF TierRows(e, t) = <<>> THEN 0 ELSE TierRows(e, t)[1].quantity

Remaining(e, t) == Configured(e, t) - Booked(e, t)

\* The Booking rows request number n created.
CreatedBy(n) == SelectSeq(bookings, LAMBDA b : b.rid = n)

\* What a form asks for: the number typed, none when it is no number.
Asked(field) == IF field = <<>> THEN 0 ELSE field[1]

\* C1: booking requests run one at a time and tier quantities are fixed; then
\* in every state, for every event and tier, the quantities of the tier's
\* Booking rows sum to at most the tier's configured quantity.
Conservation ==
    \A e \in EventIds, t \in Tiers : Booked(e, t) <= Configured(e, t)

\* A tier is booked out by two requests.
ConservationWitness ==
    \E e \in EventIds, t \in Tiers :
        /\ Configured(e, t) > 0
        /\ Booked(e, t) = Configured(e, t)
        /\ Cardinality({b.rid : b \in Rows(RowsFor(e, t))}) = 2

\* C2: when booking requests interleave at their callbacks, every insert still
\* passed the availability check against the sum its own request read, and a
\* tier is oversold only by the rows of two or more requests, each of which fits
\* the configured quantity: the oversell comes from the read-then-write race.
OversellOnlyByRace ==
    /\ \A b \in Rows(bookings) : b.quantity <= b.seen
    /\ \A e \in EventIds, t \in Tiers :
          Booked(e, t) > Configured(e, t) =>
             /\ Cardinality({b.rid : b \in Rows(RowsFor(e, t))}) >= 2
             /\ \A b \in Rows(RowsFor(e, t)) : b.quantity <= Configured(e, t)

\* Two requests read the same availability of a tier, both passed the check,
\* both inserted, and the tier's rows sum to more than its configured quantity.
OversellRace ==
    \E e \in EventIds, t \in Tiers :
        /\ Booked(e, t) > Configured(e, t)
        /\ \E a, b \in Rows(RowsFor(e, t)) : a.rid # b.rid /\ a.seen = b.seen

\* The quantity a handler asks of a tier.
Wanted(r, t) == IF t = "full" THEN loc[r].fullQty ELSE loc[r].concessionQty

\* C3: when the availability check runs (the bookings query returned) for a
\* request that asks of some tier more than the tier's remaining, the request
\* ends rejected, the rejection names such a tier and reports exactly its
\* remaining, and the bookings table is unchanged.
RejectionCorrect ==
    [][\A r \in Slots :
        (/\ pc[r] = "b_bookings"
         /\ pc'[r] # "b_bookings"
         /\ resp'[r] # Error("availability", 0)) =>
            LET e == loc[r].eventId
                short == {t \in Tiers : Wanted(r, t) > Remaining(e, t)}
            IN  short # {} =>
                   /\ pc'[r] = "idle"
                   /\ resp'[r].kind = "error"
                   /\ resp'[r].reason \in short
                   /\ resp'[r].value = Remaining(e, resp'[r].reason)
                   /\ bookings' = bookings]_vars

\* A request is turned away for concession tickets, with the true remaining 0,
\* while full tickets are left and rows of an earlier request are stored.
RejectionWitness ==
    \E e \in EventIds :
        /\ resp[1] = Error("concession", 0)
        /\ Configured(e, "concession") > 0
        /\ Remaining(e, "concession") = 0
        /\ Remaining(e, "full") > 0
        /\ \A x \in EventIds \ {e} : Remaining(x, "concession") > 0

\* C4: a booking request whose quantities total more than MAX_TICKETS_PER_BOOKING
\* ends in the synchronous part of the handler: it is rejected and the bookings
\* table is unchanged.
MaximumEnforced ==
    [][\A r \in Slots :
        (/\ pc[r] = "b_start"
         /\ pc'[r] # "b_start"
         /\ Asked(form[r].full_quantity) + Asked(form[r].concession_quantity)
               > MAX_TICKETS_PER_BOOKING) =>
            /\ pc'[r] = "idle"
            /\ resp'[r].kind = "error"
            /\ bookings' = bookings]_vars

\* A request is rejected for its total while a tier has 11 or more remaining.
MaximumWitness ==
    /\ resp[1] = Error("maximum", MAX_TICKETS_PER_BOOKING)
    /\ \E e \in EventIds, t \in Tiers : Remaining(e, t) > MAX_TICKETS_PER_BOOKING

\* C5: when a booking request is reported successful, neither requested
\* quantity is negative, the request created at least one row, its rows sum to
\* a value in 1..10, and every stored row has a quantity in 1..10.
SuccessfulBookingSound ==
    [][\A r \in Slots :
        (pc[r] # "idle" /\ pc'[r] = "idle" /\ resp'[r].kind = "success") =>
            LET n == loc[r].rid
                mine == SelectSeq(bookings', LAMBDA b : b.rid = n)
            IN  /\ loc[r].fullQty >= 0
                /\ loc[r].concessionQty >= 0
                /\ mine # <<>>
                /\ sumQuantity(mine) \in 1..MAX_TICKETS_PER_BOOKING
                /\ \A b \in Rows(bookings') :
                      b.quantity \in 1..MAX_TICKETS_PER_BOOKING]_vars

\* The part of C5 the code keeps: a stored row has a positive quantity.
StoredQuantityPositive == \A b \in Rows(bookings) : b.quantity >= 1

EventRows(e) == SelectSeq(events, LAMBDA row : row.event_id = e)

\* The part of C6 about rows: every Booking row is of an event that exists, is
\* published and is dated today or later.
BookedEventsBookable ==
    \A b \in Rows(bookings) :
        /\ EventRows(b.event_id) # <<>>
        /\ EventRows(b.event_id)[1].status = "published"
        /\ EventRows(b.event_id)[1].event_date >= Today

\* C6: rows are created only for events that exist, are published and are dated
\* today or later; a request for a missing, draft or past event is rejected and
\* leaves the bookings table unchanged; a request for a published event dated
\* today is not rejected as passed.
BookableEventsOnly ==
    /\ []BookedEventsBookable
    /\ [][\A r \in Slots :
          (pc[r] = "b_event" /\ pc'[r] # "b_event") =>
             LET rows == EventRows(loc[r].eventId)
             IN  /\ (\/ rows = <<>>
                     \/ rows[1].status # "published"
                     \/ rows[1].event_date < Today) =>
                        /\ pc'[r] = "idle"
                        /\ resp'[r].kind = "error"
                        /\ bookings' = bookings
                 /\ (/\ rows # <<>>
                     /\ rows[1].status = "published"
                     /\ rows[1].event_date = Today) =>
                        resp'[r] # Error("passed", 0)]_vars

\* The callbacks a handler waits for while it reads and has yet to write.
ReadPcs ==
    {"b_tickets", "b_bookings", "p_start", "p_event", "p_tickets", "p_bookings",
     "p_waitlist", "d_settings", "d_published", "d_draft", "d_remaining"}

\* The remaining reads a rendered page shows: for each, the event, the mapping
\* and what was stored when its tickets and its bookings were read.
Reads(v) ==
    IF v.kind = "attendee_event"
    THEN {[kind |-> v.kind, event |-> v.eventId, from |-> v.from, to |-> v.to,
           remaining |-> v.tickets]}
    ELSE IF v.kind = "organiser_home"
    THEN {[kind |-> v.kind, event |-> v.events[i].event_id,
           from |-> v.events[i].from, to |-> v.events[i].to,
           remaining |-> v.events[i].remainingTickets] :
             i \in {j \in DOMAIN v.events : v.events[j].computed}}
    ELSE {}

\* C7: a step of a handler that reads the remaining (the event page, the
\* dashboard, the booking handler up to its availability check) changes no table;
\* and when a page is rendered after another of its kind, the remaining reads
\* the two show for the same event, taken with the same rows stored and no write
\* during either, are identical.
ReadsRepeat ==
    /\ [][\A r \in Slots :
            (pc[r] \in ReadPcs /\ <<pc'[r], loc'[r]>> # <<pc[r], loc[r]>>) =>
               db' = db]_vars
    /\ [][view' # view =>
            \A a \in Reads(view), b \in Reads(view') :
               (/\ a.kind = b.kind /\ a.event = b.event
                /\ a.from = a.to /\ b.from = b.to /\ a.from = b.from) =>
                  a.remaining = b.remaining]_vars

\* The page of an event with a booking was rendered, time has passed since the
\* booking, and a second request for the page has read the same rows and holds
\* the same ticket data.
ReadsRepeatWitness ==
    \E r \in Slots :
        /\ pc[r] = "p_waitlist"
        /\ view.kind = "attendee_event"
        /\ view.eventId = loc[r].eventId
        /\ view.from = Stored /\ view.to = Stored
        /\ loc[r].from = Stored /\ loc[r].to = Stored
        /\ loc[r].ticketData = view.tickets
        /\ \E b \in Rows(bookings) :
              b.event_id = view.eventId /\ b.booking_date < clock

\* Sum over the tiers of max(0, configured - booked), from the tables.
ClampedTotal(e) ==
    (IF Remaining(e, "full") > 0 THEN Remaining(e, "full") ELSE 0)
    + (IF Remaining(e, "concession") > 0 THEN Remaining(e, "concession") ELSE 0)

\* C8: when the event page computes its ticket data (the bookings query
\* returned, no ticket row having changed since the tickets query), isSoldOut is
\* true exactly when the clamped remaining of the event's tiers sum to zero, so
\* it is false when a tier has remaining > 0; each row's remaining is the tier's
\* remaining clamped at zero; and no rendered page shows a negative remaining.
SoldOutExact ==
    /\ [](view.kind = "attendee_event" =>
            \A i \in DOMAIN view.tickets : view.tickets[i].remaining >= 0)
    /\ [][\A r \in Slots :
            (pc[r] = "p_bookings" /\ pc'[r] = "p_waitlist") =>
               LET e == loc[r].eventId
                   shown == loc'[r].ticketData
               IN  /\ loc'[r].isSoldOut <=> (ClampedTotal(e) = 0)
                   /\ (\E t \in Tiers : Remaining(e, t) > 0) => ~loc'[r].isSoldOut
                   /\ \A i \in DOMAIN shown :
                         /\ shown[i].remaining >= 0
                         /\ \/ shown[i].remaining = Remaining(e, shown[i].type)
                            \/ /\ shown[i].remaining = 0
                               /\ Remaining(e, shown[i].type) < 0]_vars

\* A page is rendered for an event whose full tier is oversold and whose
\* concession tier has one ticket left: it shows 0 and 1 and is not sold out.
SoldOutWitness ==
    /\ view.kind = "attendee_event"
    /\ ~view.isSoldOut
    /\ Remaining(view.eventId, "full") < 0
    /\ Remaining(view.eventId, "concession") = 1
    /\ \E i, j \in DOMAIN view.tickets :
          /\ view.tickets[i].type = "full" /\ view.tickets[i].remaining = 0
          /\ view.tickets[j].type = "concession" /\ view.tickets[j].remaining = 1

\* The waiting rows of event e, as the table holds them.
Waiting(e) == SelectSeq(waitlist, LAMBDA w : w.event_id = e /\ w.status = "waiting")

\* The groups of event e in a rendered list.
Groups(v, e) == SelectSeq(v.waitlistByEvent, LAMBDA g : g.event_id = e)

\* C9: when the organiser's list is rendered, for every event whose waiting
\* rows have pairwise different requested_at, the list has one group of the
\* event holding exactly those rows, in strictly increasing requested_at, with
\* positions 1, 2, ..., N; an event without waiting rows has no group.
ListsFifo ==
    [][\A r \in Slots :
        (pc[r] = "l_entries" /\ resp'[r] = Rendered("view_waitlist")) =>
           \A e \in EventIds :
              LET W == Waiting(e)
                  G == Groups(view', e)
              IN  (\A i, j \in DOMAIN W :
                      i # j => W[i].requested_at # W[j].requested_at) =>
                     IF W = <<>> THEN G = <<>>
                     ELSE /\ Len(G) = 1
                          /\ Len(G[1].entries) = Len(W)
                          /\ {x.waitlist_id : x \in Rows(G[1].entries)}
                                = {w.waitlist_id : w \in Rows(W)}
                          /\ \A i \in DOMAIN G[1].entries :
                                G[1].entries[i].position = i
                          /\ \A i, j \in DOMAIN G[1].entries :
                                i < j => G[1].entries[i].requested_at
                                            < G[1].entries[j].requested_at]_vars

\* The list shows two entries of one event of which the one that asked first
\* was inserted last: it is first in the list, at position 1.
ListsFifoWitness ==
    /\ view.kind = "view_waitlist"
    /\ \E k \in DOMAIN view.waitlistByEvent :
          LET entries == view.waitlistByEvent[k].entries
          IN  /\ Len(entries) = 2
              /\ entries[1].requested_at < entries[2].requested_at
              /\ entries[1].waitlist_id > entries[2].waitlist_id
              /\ entries[1].position = 1 /\ entries[2].position = 2

\* A waiting row of (event, email) is stored.
IsWaiting(e, email) ==
    \E w \in Rows(waitlist) :
        w.event_id = e /\ w.attendee_email = email /\ w.status = "waiting"

\* C10: with requests one at a time, no (event, email) has two waiting rows;
\* a join whose (event, email) has a waiting row is rejected at its existence
\* check and the table is unchanged; a join whose (event, email) has no waiting
\* row (none, or only notified or removed ones) goes on to its INSERT unless
\* the query fails, and the INSERT, unless it fails, adds a waiting row of that
\* (event, email).
DuplicatesRejected ==
    /\ [](\A i, j \in DOMAIN waitlist :
            (/\ i # j
             /\ waitlist[i].event_id = waitlist[j].event_id
             /\ waitlist[i].attendee_email = waitlist[j].attendee_email) =>
                ~(waitlist[i].status = "waiting" /\ waitlist[j].status = "waiting"))
    /\ [][\A r \in Slots :
            (pc[r] = "w_existing" /\ pc'[r] # "w_existing") =>
               IF IsWaiting(loc[r].eventId, loc[r].email)
               THEN /\ pc'[r] = "idle"
                    /\ resp'[r].kind = "error"
                    /\ waitlist' = waitlist
               ELSE resp'[r] # Error("database", 0) => pc'[r] = "w_insert"]_vars
    /\ [][\A r \in Slots :
            (/\ pc[r] = "w_insert" /\ pc'[r] # "w_insert"
             /\ resp'[r] # Error("failed", 0)) =>
               /\ Len(waitlist') = Len(waitlist) + 1
               /\ SubSeq(waitlist', 1, Len(waitlist)) = waitlist
               /\ waitlist'[Len(waitlist')].event_id = loc[r].eventId
               /\ waitlist'[Len(waitlist')].attendee_email = loc[r].email
               /\ waitlist'[Len(waitlist')].status = "waiting"]_vars

\* A join was rejected as already waiting; the entry was then notified or
\* removed, and another join of the same (event, email) was accepted and waits.
DuplicatesWitness ==
    /\ resp[MaxSlots] = Error("already", 0)
    /\ resp[1].kind = "success"
    /\ \E i, j \in DOMAIN waitlist :
          /\ i < j
          /\ waitlist[i].event_id = waitlist[j].event_id
          /\ waitlist[i].attendee_email = waitlist[j].attendee_email
          /\ waitlist[i].status \in {"notified", "removed"}
          /\ waitlist[j].status = "waiting"

\* C11: in every state, also when the callbacks of join requests interleave,
\* no (event, email) has two rows with status 'waiting'.
OneWaitingPerPair ==
    \A i, j \in DOMAIN waitlist :
        (/\ i < j
         /\ waitlist[i].event_id = waitlist[j].event_id
         /\ waitlist[i].attendee_email = waitlist[j].attendee_email) =>
            ~(waitlist[i].status = "waiting" /\ waitlist[j].status = "waiting")

\* C12: no step changes the status of a row that is 'notified' or 'removed';
\* the only changes of a row's status are waiting -> notified and
\* waiting -> removed.
TerminalStatuses ==
    [][\A i \in DOMAIN waitlist :
        /\ i \in DOMAIN waitlist'
        /\ waitlist[i].status \in {"notified", "removed"} =>
              waitlist'[i].status = waitlist[i].status
        /\ waitlist'[i].status # waitlist[i].status =>
              /\ waitlist[i].status = "waiting"
              /\ waitlist'[i].status \in {"notified", "removed"}]_vars

\* The part of C12 the code keeps: no row goes back to 'waiting', and rows are
\* never deleted.
NeverWaitingAgain ==
    [][\A i \in DOMAIN waitlist :
        /\ i \in DOMAIN waitlist'
        /\ waitlist[i].status # "waiting" => waitlist'[i].status # "waiting"]_vars

\* C13: with requests one at a time, when a join is told its position (the
\* count query returned) and every other waiting row of the event asked
\* earlier, the position is the number of waiting rows of the event, the new
\* row included: 1 on an empty waitlist, 2 for a second joiner.
PositionIsCount ==
    [][\A r \in Slots :
        (/\ pc[r] = "w_position" /\ pc'[r] = "idle"
         /\ resp'[r].value # -1
         /\ \A i \in 1..(Len(waitlist) - 1) :
               (waitlist[i].event_id = loc[r].eventId
                /\ waitlist[i].status = "waiting") =>
                   waitlist[i].requested_at < loc[r].now) =>
            /\ resp'[r].kind = "success"
            /\ resp'[r].value = Len(Waiting(loc[r].eventId))
            /\ resp'[r].value >= 1]_vars

\* A second joiner, an instant after the first, is told position 2 while both
\* wait for the same event.
PositionWitness ==
    /\ resp[1] = Success("waitlist", 2)
    /\ Len(waitlist) = 2
    /\ \A i \in DOMAIN waitlist : waitlist[i].status = "waiting"
    /\ waitlist[1].event_id = waitlist[2].event_id
    /\ waitlist[1].attendee_email # waitlist[2].attendee_email
    /\ waitlist[1].requested_at < waitlist[2].requested_at

\* C14: a step that adds a row to the waitlist adds it for an event that is
\* sold out: every tier of the event has remaining <= 0.
JoinOnlySoldOut ==
    [][Len(waitlist') > Len(waitlist) =>
          \A t \in Tiers :
              Remaining(waitlist'[Len(waitlist')].event_id, t) <= 0]_vars

\* C18: with bookings one at a time and the organiser saving tier quantities
\* between them, in every state the booked quantity of every tier of every
\* event is at most the tier's configured quantity.
EditKeepsBooked ==
    \A e \in EventIds, t \in Tiers : Booked(e, t) <= Configured(e, t)

\* C19: in every state, also when the callbacks of saves of one event
\* interleave, the tickets table has at most one row per (event, tier).
OneRowPerTier ==
    \A e \in EventIds, t \in Tiers : Len(TierRows(e, t)) <= 1

BookInsertPcs == {"b_insert_full", "b_insert_concession"}
BookPcs == {"b_start", "b_event", "b_tickets", "b_bookings"} \cup BookInsertPcs
EditPcs == {"e_update", "e_count", "e_save"}
WaitlistPcs == {"w_start", "w_event", "w_existing", "w_insert", "w_position",
                "remove", "notify"}

\* Slot r takes the step.
Steps(r) == pc'[r] # pc[r]

\* C15: no automatic promotion. In every step, a Booking row that was not in
\* the table before is inserted by the booking handler; a Booking row that
\* stays keeps all its fields; a step of join, notify or remove leaves the
\* bookings table as it is; and a step of the booking handler or of the edit
\* handler leaves the waitlist table, every status with it, as it is.
NoPromotion ==
    [][/\ \A b \in Rows(bookings') :
              b \notin Rows(bookings) =>
                  \E r \in Slots : pc[r] \in BookInsertPcs /\ b.rid = loc[r].rid
       /\ \A b \in Rows(bookings), c \in Rows(bookings') :
              b.booking_id = c.booking_id => b = c
       /\ \A r \in Slots :
              (pc[r] \in WaitlistPcs /\ Steps(r)) => bookings' = bookings
       /\ \A r \in Slots :
              (pc[r] \in BookPcs \cup EditPcs /\ Steps(r)) => waitlist' = waitlist]_vars

\* An attendee still waits for event 1 after the organiser raised its full
\* tier from 2 to 3 and a booking was made.
NoPromotionWitness ==
    /\ Configured(1, "full") = 3
    /\ resp[1] = Redirect("/organiser")
    /\ Booked(1, "full") >= 1
    /\ Waiting(1) # <<>>

OrganiserPcs == EditPcs \cup {"create", "publish", "delete", "settings", "remove", "notify"}

\* The statuses of the waitlist rows, by waitlist_id.
Statuses(table) == {<<w.waitlist_id, w.status>> : w \in Rows(table)}

\* C16: in every step, (1) a browser's request enters an organiser handler
\* only if its session is authenticated; (2) a request of a browser whose
\* session is not authenticated, when it is answered at once, changes no table
\* and is answered with a redirect to /login, a message of the login form, or
\* the redirect of logout; (3) the events, the tickets, the settings and
\* the statuses of waitlist entries change only in a step of an organiser
\* handler; (4) a session becomes authenticated only in the callback of a login
\* whose username and password are those of an organisers row; (5) after logout
\* the session is not authenticated.
OrganiserAuthenticated ==
    [][/\ \A r \in Slots : (Idle(r) /\ pc'[r] \in OrganiserPcs) => session[r]
       /\ \A r \in Slots :
              (Idle(r) /\ ~session[r] /\ Idle(r)' /\ resp'[r] # resp[r]) =>
                  /\ UNCHANGED <<db, organisers, settings, sqlite_sequence>>
                  /\ \/ resp'[r] \in {Redirect("/login"), Redirect("/")}
                     \/ resp'[r].kind = "send"
       /\ (\/ events' # events
           \/ tickets' # tickets
           \/ settings' # settings
           \/ Statuses(waitlist) \ Statuses(waitlist') # {}) =>
              \E r \in Slots : pc[r] \in OrganiserPcs /\ Steps(r)
       /\ \A r \in Slots :
              (~session[r] /\ session'[r]) =>
                  /\ pc[r] = "login"
                  /\ \E o \in Rows(organisers) :
                        o.username = loc[r].username /\ o.password = loc[r].password
       /\ \A r \in Slots : resp'[r] = Redirect("/") => ~session'[r]]_vars

\* One browser registered, logged in and saved the settings; the other, not
\* logged in, was sent to /login.
OrganiserWitness ==
    /\ session[1] /\ ~session[MaxSlots]
    /\ Len(organisers) = 2
    /\ resp[1] = Redirect("/organiser")
    /\ settings.site_name = <<"G">>
    /\ resp[MaxSlots] = Redirect("/login")

\* C17: the row a registration inserts into organisers never holds the
\* submitted password itself.
PasswordsHashed ==
    [][\A r \in Slots :
          (pc[r] = "g_insert" /\ Len(organisers') > Len(organisers)) =>
              organisers'[Len(organisers')].password # loc[r].password]_vars

ValidationPcs == {"b_start", "b_event", "b_tickets", "b_bookings"}

\* The name, email and quantities of the request slot r validates.
Validated(r) == IF pc[r] = "b_start" THEN bookLocals(r) ELSE loc[r]

\* The first check, in the stated order, that request l fails: name, email,
\* total in 1..10, no negative quantity, event published, event date, capacity
\* of the full tier, capacity of the concession tier; "ok" when it fails none.
FirstFailing(l) ==
    LET totalQty == l.fullQty + l.concessionQty
        found == selectPublished(l.eventId)
    IN  IF nameMissing(l.name) THEN "name"
        ELSE IF emailRejected(l.email) THEN "email"
        ELSE IF totalQty < 1 THEN "none_selected"
        ELSE IF totalQty > MAX_TICKETS_PER_BOOKING THEN "maximum"
        ELSE IF l.fullQty < 0 \/ l.concessionQty < 0 THEN "negative"
        ELSE IF found = <<>> THEN "not_found"
        ELSE IF hasPassed(found[1]) THEN "passed"
        ELSE IF l.fullQty > Remaining(l.eventId, "full") THEN "full"
        ELSE IF l.concessionQty > Remaining(l.eventId, "concession") THEN "concession"
        ELSE "ok"

\* The step ends the validation of slot r's request and no query failed in it.
Validates(r) ==
    /\ pc[r] \in ValidationPcs
    /\ pc'[r] \notin ValidationPcs
    /\ resp'[r].reason \notin {"invalid_event", "availability"}
    /\ ~(resp'[r].reason = "not_found" /\ selectPublished(loc[r].eventId) # <<>>)

\* C20: with requests one at a time, when the validation of a booking request
\* ends, a request that fails none of the checks goes on to its INSERT, and a
\* request that fails one is rejected with the reason of the first check it
\* fails in the order name, email, total in 1..10, no negative quantity, event
\* published, event date, capacity, the bookings table unchanged.
ValidationOrder ==
    [][\A r \in Slots :
          Validates(r) =>
              LET first == FirstFailing(Validated(r))
              IN  IF first = "ok" THEN pc'[r] \in BookInsertPcs
                  ELSE /\ pc'[r] = "idle"
                       /\ resp'[r].kind = "error"
                       /\ resp'[r].reason = first
                       /\ bookings' = bookings]_vars

CreatedOf(table, n, t) ==
    SelectSeq(table, LAMBDA b : b.rid = n /\ b.ticket_type = t)

\* C22: when a booking request is reported successful, for each tier it asked
\* a positive quantity of it has created exactly one row, which carries that
\* quantity, the event, the name and the email of the request, and for each
\* tier it asked none of (or a negative quantity of) it has created no row;
\* all its rows carry one booking_date, the instant the request was handled.
OneRowPerRequestedTier ==
    [][\A r \in Slots :
          (pc[r] \in BookInsertPcs /\ resp'[r] = Success("booked", 0)) =>
              \A t \in Tiers :
                  LET rows == CreatedOf(bookings', loc[r].rid, t)
                  IN  IF Wanted(r, t) > 0
                      THEN /\ Len(rows) = 1
                           /\ rows[1].quantity = Wanted(r, t)
                           /\ rows[1].event_id = loc[r].eventId
                           /\ rows[1].attendee_name = loc[r].name
                           /\ rows[1].attendee_email = loc[r].email
                           /\ rows[1].booking_date = loc[r].now
                      ELSE rows = <<>>]_vars

\* A request for both tiers succeeded and time passed while it was handled: its
\* two rows carry the same booking_date, which is earlier than now.
OneRowPerTierWitness ==
    /\ resp[1] = Success("booked", 0)
    /\ Len(bookings) = 2
    /\ bookings[1].rid = bookings[2].rid
    /\ bookings[1].ticket_type # bookings[2].ticket_type
    /\ bookings[1].booking_date = bookings[2].booking_date
    /\ bookings[1].booking_date < clock

\* C23: when the concession INSERT of a request fails after its full INSERT
\* succeeded, the request is reported as failed and the full row stays: the
\* step leaves the bookings table as it is, with the request's one full row of
\* the requested quantity and no concession row; and no step removes a row.
PartialCommit ==
    [][/\ \A r \in Slots :
            (/\ pc[r] = "b_insert_concession"
             /\ resp'[r] = Error("failed", 0)
             /\ loc[r].fullQty > 0) =>
                /\ bookings' = bookings
                /\ Len(CreatedOf(bookings', loc[r].rid, "full")) = 1
                /\ CreatedOf(bookings', loc[r].rid, "full")[1].quantity = loc[r].fullQty
                /\ CreatedOf(bookings', loc[r].rid, "concession") = <<>>
       /\ \A b \in Rows(bookings) : b \in Rows(bookings')]_vars

\* The request for one ticket of each tier was reported failed and its full
\* row is the only row stored.
PartialCommitWitness ==
    /\ resp[1] = Error("failed", 0)
    /\ Len(bookings) = 1
    /\ bookings[1].ticket_type = "full"
    /\ bookings[1].quantity = 1
    /\ bookings[1].attendee_email = GoodEmail
    /\ Remaining(1, "concession") >= 1

\* C24: in every rendered waitlist, the groups come in ascending order of
\* event date: no group comes before a group of an earlier event_date.
GroupsByDate ==
    view.kind = "view_waitlist" =>
        \A i, j \in DOMAIN view.waitlistByEvent :
            i < j => view.waitlistByEvent[i].event_date
                        <= view.waitlistByEvent[j].event_date

\* C25: in every rendered waitlist, of two entries of one group with equal
\* requested_at the one with the smaller waitlist_id has the smaller position.
TiesByInsertion ==
    view.kind = "view_waitlist" =>
        \A g \in Rows(view.waitlistByEvent) :
            \A a, b \in Rows(g.entries) :
                (a.requested_at = b.requested_at /\ a.waitlist_id < b.waitlist_id)
                    => a.position < b.position

\* The entries of a rendered list, of all groups.
Listed(v) == UNION {Rows(g.entries) : g \in Rows(v.waitlistByEvent)}

\* C26: whenever the organiser's list is rendered, it holds exactly the rows
\* whose status is 'waiting', totalEntries is their number, and the positions
\* within each group are exactly 1..N; and when the list rendered before held
\* the same entries and one more, x, every entry of x's event that was after x
\* is now one position lower.
ListAfterMarks ==
    [][\A r \in Slots :
        (pc[r] = "l_entries" /\ resp'[r] = Rendered("view_waitlist")) =>
           /\ {y.waitlist_id : y \in Listed(view')}
                 = {w.waitlist_id : w \in {w \in Rows(waitlist) : w.status = "waiting"}}
           /\ view'.totalEntries
                 = Cardinality({w \in Rows(waitlist) : w.status = "waiting"})
           /\ \A g \in Rows(view'.waitlistByEvent) :
                 /\ {y.position : y \in Rows(g.entries)} = 1..Len(g.entries)
                 /\ \A i \in DOMAIN g.entries : g.entries[i].position = i
           /\ view.kind = "view_waitlist" =>
                 \A x \in Listed(view) :
                    {y.waitlist_id : y \in Listed(view')}
                       = {y.waitlist_id : y \in Listed(view)} \ {x.waitlist_id} =>
                       \A y \in Listed(view), z \in Listed(view') :
                          (/\ y.waitlist_id = z.waitlist_id
                           /\ y.event_id = x.event_id
                           /\ y.position > x.position) =>
                              z.position = y.position - 1]_vars

\* C27: notify reads the time when the request arrives; its UPDATE turns the
\* waiting entry of the given id into a notified entry with that time as
\* notified_at; the UPDATE of remove turns it into a removed entry with
\* notified_at as it was; all other fields of the entry, all other entries and
\* all other tables stay as they are, and with an id that no entry has the
\* table stays as it is.
MarksOnlyTheEntry ==
    [][\A r \in Slots :
        /\ (pc[r] = "idle" /\ pc'[r] = "notify") => loc'[r].now = clock
        /\ (/\ pc[r] \in {"notify", "remove"}
            /\ resp'[r] = Redirect("/organiser/waitlist")) =>
               /\ UNCHANGED <<events, tickets, bookings>>
               /\ DOMAIN waitlist' = DOMAIN waitlist
               /\ \A i \in DOMAIN waitlist :
                     IF waitlist[i].waitlist_id # loc[r].waitlistId
                     THEN waitlist'[i] = waitlist[i]
                     ELSE waitlist[i].status = "waiting" =>
                             waitlist'[i] =
                                IF pc[r] = "notify"
                                THEN [waitlist[i] EXCEPT !.status = "notified",
                                                         !.notified_at = <<loc[r].now>>]
                                ELSE [waitlist[i] EXCEPT !.status = "removed"]
               /\ (\A w \in Rows(waitlist) : w.waitlist_id # loc[r].waitlistId)
                     => waitlist' = waitlist]_vars

\* An entry that asked at 0 was marked notified at 1, and the other entry was
\* removed and has no notified_at.
MarksWitness ==
    /\ Len(waitlist) = 2
    /\ waitlist[1].status = "notified"
    /\ waitlist[1].requested_at = 0
    /\ waitlist[1].notified_at = <<1>>
    /\ waitlist[2].status = "removed"
    /\ waitlist[2].notified_at = <<>>

\* C28: when a join is told its position while the table holds two waiting
\* entries of its event with different requested_at, its own and the one of
\* the join another handler was told a position for, the two positions
\* differ and the entry that asked later has the larger one.
PositionsConsistent ==
    [][\A r, q \in Slots :
        (/\ r # q
         /\ pc[r] = "w_position" /\ pc'[r] = "idle" /\ resp'[r].value # -1
         /\ pc[q] = "idle" /\ resp[q].kind = "success" /\ resp[q].value # -1
         /\ Len(waitlist) = 2
         /\ \A w \in Rows(waitlist) :
               w.event_id = loc[r].eventId /\ w.status = "waiting"
         /\ waitlist[1].requested_at # waitlist[2].requested_at) =>
            LET other == CHOOSE w \in Rows(waitlist) : w.requested_at # loc[r].now
            IN  /\ resp'[r].value # resp[q].value
                /\ loc[r].now > other.requested_at
                      <=> resp'[r].value > resp[q].value]_vars

\* C29: with requests one at a time, when the organiser's list is rendered
\* right after a join was told its position, and every other waiting entry of
\* the join's event asked earlier than it, the list holds the join's entry at
\* the position the join was told.
ListedAsTold ==
    [][(/\ pc[MaxSlots] = "l_entries"
        /\ resp'[MaxSlots] = Rendered("view_waitlist")
        /\ resp[1].kind = "success" /\ resp[1].reason = "waitlist"
        /\ resp[1].value # -1) =>
           LET mine == waitlist[Len(waitlist)]
           IN  (\A w \in Rows(waitlist) :
                   (/\ w.waitlist_id # mine.waitlist_id
                    /\ w.event_id = mine.event_id
                    /\ w.status = "waiting") => w.requested_at < mine.requested_at) =>
                  \E y \in Listed(view') :
                     /\ y.waitlist_id = mine.waitlist_id
                     /\ y.position = resp[1].value]_vars

\* After the first entry of event 1 was removed, a join for the event an
\* instant later was told position 1, and the list rendered next shows it at
\* position 1.
ListedAsToldWitness ==
    /\ resp[1] = Success("waitlist", 1)
    /\ resp[MaxSlots] = Rendered("view_waitlist")
    /\ Len(waitlist) = 2
    /\ waitlist[1].status = "removed"
    /\ waitlist[1].event_id = waitlist[2].event_id
    /\ waitlist[1].requested_at < waitlist[2].requested_at
    /\ view.kind = "view_waitlist"
    /\ \E y \in Listed(view) :
          y.waitlist_id = waitlist[2].waitlist_id /\ y.position = 1

\* C30: a join request whose name has fewer than 2 characters, whose email is
\* empty or malformed, or whose quantity is given and below 1 or above 10 is
\* rejected by the handler's first step, and one whose event is missing or not
\* published by the callback of the events query, the waitlist staying as it
\* is; a request that passes carries on with the quantity it asked for, and a
\* row that is inserted has a non-empty email and that quantity, within 1..10.
JoinValidates ==
    [][\A r \in Slots :
        /\ (/\ pc[r] = "w_start"
            /\ \/ Len(trim(sanitizeInput(form[r].attendee_name))) < 2
               \/ trim(sanitizeInput(form[r].attendee_email)) = <<>>
               \/ ~isValidEmail(trim(sanitizeInput(form[r].attendee_email)))
               \/ /\ form[r].quantity # <<>>
                  /\ form[r].quantity[1] \notin 1..MAX_TICKETS_PER_BOOKING) =>
               /\ pc'[r] = "idle"
               /\ resp'[r].kind = "error"
               /\ waitlist' = waitlist
        /\ (pc[r] = "w_event" /\ selectPublished(loc[r].eventId) = <<>>) =>
               /\ pc'[r] = "idle"
               /\ resp'[r].kind = "error"
               /\ waitlist' = waitlist
        /\ (pc[r] = "w_start" /\ pc'[r] = "w_event" /\ form[r].quantity # <<>>) =>
               loc'[r].quantity = form[r].quantity[1]
        /\ (pc[r] = "w_insert" /\ Len(waitlist') > Len(waitlist)) =>
               LET row == waitlist'[Len(waitlist')]
               IN  /\ row.attendee_email # <<>>
                   /\ row.quantity = loc[r].quantity
                   /\ row.quantity \in 1..MAX_TICKETS_PER_BOOKING]_vars

\* C31: every row of the waitlist and every row of the bookings has a
\* ticket_type that is 'full' or 'concession'.
TierLabels ==
    /\ \A w \in Rows(waitlist) : w.ticket_type \in Tiers
    /\ \A b \in Rows(bookings) : b.ticket_type \in Tiers

\* C32: when the confirmation is rendered for the event and the name of the
\* booking that just succeeded, its totalQuantity is the sum of the
\* quantities of the rows that request created, and its totalPrice the sum of
\* quantity times the configured price of the tier over those rows.
ConfirmationOfRequest ==
    [][(/\ pc[MaxSlots] = "c_tickets"
        /\ resp'[MaxSlots] = Rendered("booking_confirmation")
        /\ resp[1] = Success("booked", 0)) =>
           LET last == bookings[Len(bookings)]
               mine == SelectSeq(bookings, LAMBDA b : b.rid = last.rid)
           IN  (/\ loc[MaxSlots].eventId = last.event_id
                /\ loc[MaxSlots].name = last.attendee_name) =>
                  /\ view'.totalQuantity = sumQuantity(mine)
                  /\ view'.totalPrice = sumPrice(mine, selectTickets(last.event_id))]_vars

\* C33: every row of tickets, bookings and waitlist refers to an event that
\* exists; and the DELETE of an event leaves no row of the event in the three
\* tables.
RowsHaveEvents ==
    [][/\ \A t \in Rows(tickets') : \E e \in Rows(events') : e.event_id = t.event_id
       /\ \A b \in Rows(bookings') : \E e \in Rows(events') : e.event_id = b.event_id
       /\ \A w \in Rows(waitlist') : \E e \in Rows(events') : e.event_id = w.event_id
       /\ \A r \in Slots :
             (pc[r] = "delete" /\ resp'[r] = Redirect("/organiser")) =>
                /\ \A e \in Rows(events') : e.event_id # loc[r].eventId
                /\ \A t \in Rows(tickets') : t.event_id # loc[r].eventId
                /\ \A b \in Rows(bookings') : b.event_id # loc[r].eventId
                /\ \A w \in Rows(waitlist') : w.event_id # loc[r].eventId]_vars

\* Event 1 was deleted between the two INSERTs of a booking: the full row went
\* with the event, the concession INSERT failed, and the request was told so.
RowsHaveEventsWitness ==
    /\ \A e \in Rows(events) : e.event_id # 1
    /\ resp[1] = Error("failed", 0)
    /\ sqlite_sequence["bookings"] = 1
    /\ bookings = <<>>
    /\ resp[MaxSlots] = Redirect("/organiser")

\* The handlers past the published check of a booking or of a join.
PastPublishedCheck ==
    {"b_tickets", "b_bookings", "b_insert_full", "b_insert_concession",
     "w_existing", "w_insert", "w_position"}

\* C34: every step leaves each event draft or published; an event that is new
\* is a draft without published_at; the UPDATE of publish leaves the event
\* published with published_at the instant the request arrived; a published
\* event that is still there is still published; and the event of a booking
\* or join that passed the published check is published or gone.
Lifecycle ==
    [][/\ \A e \in Rows(events') :
             /\ e.status \in {"draft", "published"}
             /\ (\A old \in Rows(events) : old.event_id # e.event_id) =>
                   e.status = "draft" /\ e.published_at = <<>>
       /\ \A old \in Rows(events), e \in Rows(events') :
             (old.event_id = e.event_id /\ old.status = "published") =>
                e.status = "published"
       /\ \A r \in Slots :
             /\ (pc[r] = "idle" /\ pc'[r] = "publish") => loc'[r].now = clock
             /\ (pc[r] = "publish" /\ resp'[r] = Redirect("/organiser")) =>
                   \A e \in Rows(events') :
                      e.event_id = loc[r].eventId =>
                         e.status = "published" /\ e.published_at = <<loc[r].now>>
             /\ pc'[r] \in PastPublishedCheck =>
                   \A e \in Rows(events') :
                      e.event_id = loc'[r].eventId => e.status = "published"]_vars

\* The first event created was published an instant after the start, while
\* event 1, published from the start, was deleted under a booking in flight.
LifecycleWitness ==
    /\ \E e \in Rows(events) :
          /\ e.event_id = MaxEvents + 1
          /\ e.status = "published"
          /\ e.published_at = <<1>>
    /\ \A e \in Rows(events) : e.event_id # 1
    /\ pc[MaxSlots] \in PastPublishedCheck
    /\ loc[MaxSlots].eventId = 1

\* C35: a booking or join request in flight has no response yet and is
\* answered in the end; the step that answers it ends the handler with one
\* redirect, with an error or a success message; and an answer stays as it is
\* until the handler's next request comes in.
RespondsOnce ==
    /\ [][\A r \in Slots :
            /\ pc'[r] \in (BookPcs \cup {"w_start", "w_event", "w_existing",
                                          "w_insert", "w_position"}) =>
                  resp'[r] = NoResponse
            /\ resp'[r] # resp[r] =>
                  \/ /\ pc[r] # "idle" /\ pc'[r] = "idle"
                     /\ resp[r] = NoResponse
                     /\ resp'[r].kind \in {"error", "success"}
                  \/ /\ pc[r] = "idle" /\ pc'[r] # "idle"
                     /\ resp'[r] = NoResponse
            /\ (pc[r] # "idle" /\ pc'[r] = "idle") =>
                  resp'[r].kind \in {"error", "success"}]_vars
    /\ \A r \in Slots :
          (pc[r] # "idle") ~> (pc[r] = "idle" /\ resp[r].kind \in {"error", "success"})

\* A booking was answered that its second INSERT failed while a join whose
\* position count failed was answered with a position unknown.
RespondsOnceWitness ==
    /\ resp[1] = Error("failed", 0)
    /\ Len(bookings) = 1
    /\ resp[MaxSlots] = Success("waitlist", -1)
    /\ Len(waitlist) = 1
    /\ AllIdle

\* C36: every step leaves each entry of the waitlist with a status that is
\* waiting, notified or removed, a waiting entry without notified_at and a
\* notified entry with one; and an entry that is new is waiting.
EntryStatuses ==
    [][\A w \in Rows(waitlist') :
          /\ w.status \in {"waiting", "notified", "removed"}
          /\ w.status = "waiting" => w.notified_at = <<>>
          /\ w.status = "notified" => w.notified_at # <<>>
          /\ (\A old \in Rows(waitlist) : old.waitlist_id # w.waitlist_id) =>
                w.status = "waiting"]_vars

\* An entry was marked notified and then removed and keeps its notified_at;
\* the other, which asked at 0, was marked notified at 1.
EntryStatusesWitness ==
    /\ Len(waitlist) = 2
    /\ waitlist[1].status = "removed"
    /\ waitlist[1].notified_at # <<>>
    /\ waitlist[2].status = "notified"
    /\ waitlist[2].notified_at = <<1>>
    /\ waitlist[2].requested_at = 0

=============================================================================
